---- MODULE Spec2Model ----
(***************************************************************************)
(* Model of the package chips_contrib.lut: building a color lookup table   *)
(* from named anchor colors (src/lutcolors.py), locating and reading a     *)
(* table (src/_utils.py), hex color codes (src/hexify.py), coloring the    *)
(* objects of a plot (src/color_curves.py), and the plot objects           *)
(* BoxWhiskerPlot (src/lutbox_whisker.py) and LUTPlot (src/lutplot.py),    *)
(* together with the plotting application as the package uses it.          *)
(*                                                                         *)
(* The values of a table are modelled exactly, as rationals <<n, d>> in    *)
(* lowest terms with d > 0; the pair <<0, 0>> is the floating-point NaN    *)
(* that numpy produces for 0/0.  Where the code truncates or compares a    *)
(* double (the sampling of a table, the bins of LUTPlot.plot) the double   *)
(* is modelled bit by bit.  The code is Python 2 (map() returns a list).   *)
(***************************************************************************)
EXTENDS Integers, Sequences, FiniteSets, TLC

(***************************************************************************)
(* Exact arithmetic                                                        *)
(***************************************************************************)
Abs(n) == IF n < 0 THEN -n ELSE n

RECURSIVE GCD(_, _)
GCD(a, b) == IF b = 0 THEN a ELSE GCD(b, a % b)

\* the rational n/d in lowest terms (d # 0), or NaN when d = 0
Reduce(n, d, g) == IF d < 0 THEN <<(-n) \div g, (-d) \div g>>
                   ELSE <<n \div g, d \div g>>
R(n, d) == IF d = 0 THEN <<0, 0>> ELSE Reduce(n, d, GCD(Abs(n), Abs(d)))

NaN == <<0, 0>>
IsNaN(q) == q[2] = 0
Zero == <<0, 1>>
One == <<1, 1>>
Half == <<1, 2>>

Add(a, b) == IF IsNaN(a) \/ IsNaN(b) THEN NaN
             ELSE R(a[1] * b[2] + b[1] * a[2], a[2] * b[2])
Sub(a, b) == IF IsNaN(a) \/ IsNaN(b) THEN NaN
             ELSE R(a[1] * b[2] - b[1] * a[2], a[2] * b[2])
Mul(a, b) == IF IsNaN(a) \/ IsNaN(b) THEN NaN
             ELSE R(a[1] * b[1], a[2] * b[2])
\* float division; the only zero divisor the code meets is 0/0.0 = nan
Div(a, b) == IF IsNaN(a) \/ IsNaN(b) THEN NaN
             ELSE R(a[1] * b[2], a[2] * b[1])
\* comparisons with NaN are False, as in IEEE arithmetic
Lt(a, b) == ~IsNaN(a) /\ ~IsNaN(b) /\ a[1] * b[2] < b[1] * a[2]
Le(a, b) == ~IsNaN(a) /\ ~IsNaN(b) /\ a[1] * b[2] <= b[1] * a[2]
Floor(a) == a[1] \div a[2]
\* Python's x % 1.0 and numpy's np.mod(x, 1.0): the result is in [0,1)
Mod1(a) == IF IsNaN(a) THEN NaN ELSE Sub(a, R(Floor(a), 1))

Max2(a, b) == IF Lt(a, b) THEN b ELSE a
Min2(a, b) == IF Lt(b, a) THEN b ELSE a
Max3(a, b, c) == Max2(Max2(a, b), c)
Min3(a, b, c) == Min2(Min2(a, b), c)

(***************************************************************************)
(* colorsys (Python standard library), as lut_colors imports it            *)
(***************************************************************************)
\* (Intermediate values are passed on as operator arguments, one operator
\* per group of assignments of the Python function.)

\* h = bc-gc | 2.0+rc-bc | 4.0+gc-rc, from rc, gc, bc
hue_of(r, g, maxc, rc, gc, bc) ==
    IF r = maxc THEN Sub(bc, gc)
    ELSE IF g = maxc THEN Sub(Add(R(2, 1), rc), bc)
    ELSE Sub(Add(R(4, 1), gc), rc)

\* the hue computed by both rgb_to_hsv and rgb_to_hls when maxc # minc
rgb_hue(r, g, b, maxc, minc) ==
    Mod1(Div(hue_of(r, g, maxc,
                    Div(Sub(maxc, r), Sub(maxc, minc)),
                    Div(Sub(maxc, g), Sub(maxc, minc)),
                    Div(Sub(maxc, b), Sub(maxc, minc))),
             R(6, 1)))

hsv_of(r, g, b, maxc, minc) ==
    IF minc = maxc THEN <<Zero, Zero, maxc>>
    ELSE <<rgb_hue(r, g, b, maxc, minc), Div(Sub(maxc, minc), maxc), maxc>>

rgb_to_hsv(c) ==
    hsv_of(c[1], c[2], c[3], Max3(c[1], c[2], c[3]), Min3(c[1], c[2], c[3]))

\* the return statement selected by i = int(h*6.0) % 6
hsv_sextant(i, v, p, q, t) ==
    CASE i = 0 -> <<v, t, p>>
      [] i = 1 -> <<q, v, p>>
      [] i = 2 -> <<p, v, t>>
      [] i = 3 -> <<p, q, v>>
      [] i = 4 -> <<t, p, v>>
      [] OTHER -> <<v, p, q>>

\* p, q, t from f = h*6.0 - i
hsv_pqt(i, f, s, v) ==
    hsv_sextant(i % 6, v, Mul(v, Sub(One, s)), Mul(v, Sub(One, Mul(s, f))),
                Mul(v, Sub(One, Mul(s, Sub(One, f)))))

hsv_frac(h6, i, s, v) == hsv_pqt(i, Sub(h6, R(i, 1)), s, v)

hsv_to_rgb(h, s, v) ==
    IF s = Zero THEN <<v, v, v>>
    ELSE hsv_frac(Mul(h, R(6, 1)), Floor(Mul(h, R(6, 1))), s, v)

hls_of(r, g, b, maxc, minc, l) ==
    IF minc = maxc THEN <<Zero, l, Zero>>
    ELSE <<rgb_hue(r, g, b, maxc, minc), l,
           IF Le(l, Half)
           THEN Div(Sub(maxc, minc), Add(maxc, minc))
           ELSE Div(Sub(maxc, minc), Sub(Sub(R(2, 1), maxc), minc))>>

hls_minmax(r, g, b, maxc, minc) ==
    hls_of(r, g, b, maxc, minc, Div(Add(minc, maxc), R(2, 1)))

rgb_to_hls(c) ==
    hls_minmax(c[1], c[2], c[3], Max3(c[1], c[2], c[3]),
               Min3(c[1], c[2], c[3]))

\* colorsys._v after hue = hue % 1.0
hls_v_mod(m1, m2, hue) ==
    IF Lt(hue, R(1, 6)) THEN Add(m1, Mul(Mul(Sub(m2, m1), hue), R(6, 1)))
    ELSE IF Lt(hue, Half) THEN m2
    ELSE IF Lt(hue, R(2, 3))
         THEN Add(m1, Mul(Mul(Sub(m2, m1), Sub(R(2, 3), hue)), R(6, 1)))
    ELSE m1

hls_v(m1, m2, hue) == hls_v_mod(m1, m2, Mod1(hue))

hls_m1m2(h, m1, m2) ==
    <<hls_v(m1, m2, Add(h, R(1, 3))), hls_v(m1, m2, h),
      hls_v(m1, m2, Sub(h, R(1, 3)))>>

hls_m2(h, l, m2) == hls_m1m2(h, Sub(Mul(R(2, 1), l), m2), m2)

hls_to_rgb(h, l, s) ==
    IF s = Zero THEN <<l, l, l>>
    ELSE hls_m2(h, l, IF Le(l, Half) THEN Mul(l, Add(One, s))
                      ELSE Sub(Add(l, s), Mul(l, s)))

_noop(x, y, z) == <<x, y, z>>

(***************************************************************************)
(* numpy, as lut_colors uses it                                            *)
(***************************************************************************)
\* (variant: np.arange(n)/float(n), positions that stop short of 1)
arange_div_open(n) == [j \in 1..n |-> Div(R(j - 1, 1), R(n, 1))]

\* np.arange(n)/(n-1.0): n evenly spaced positions 0..1; for n = 1 the
\* single position is 0/0.0 = nan, for n = 0 the array is empty
arange_div(n) == [j \in 1..n |-> Div(R(j - 1, 1), R(n - 1, 1))]

\* np.where(xx <= x)[0][-1], 1-based; 0 when no sample point is <= x
where_le_last(xx, x) ==
    IF \A i \in 1..Len(xx) : ~Le(xx[i], x) THEN 0
    ELSE CHOOSE i \in 1..Len(xx) :
            Le(xx[i], x) /\ \A k \in (i + 1)..Len(xx) : ~Le(xx[k], x)

\* np.interp(x, xp, fp) for one x and a non-empty xp (numpy raises
\* ValueError for an empty xp, see interp_raises)
\* (variant: the value of the sample point to the left, no interpolation)
np_interp_at_step(x, xp, fp, j) == IF j = 0 THEN fp[1] ELSE fp[j]

\* the value numpy computes once its binary search has found the interval j
np_interp_at(x, xp, fp, j) ==
    IF j = 0 THEN fp[1]
    ELSE IF j = Len(xp) THEN fp[Len(fp)]
    ELSE IF xp[j] = x THEN fp[j]
    ELSE Add(Mul(Div(Sub(fp[j + 1], fp[j]), Sub(xp[j + 1], xp[j])),
                 Sub(x, xp[j])),
             fp[j])

np_interp(x, xp, fp) ==
    IF Len(xp) = 1
    THEN IF Lt(x, xp[1]) THEN fp[1]
         ELSE IF Lt(xp[1], x) THEN fp[Len(fp)] ELSE fp[1]
    ELSE IF IsNaN(x) THEN NaN
    ELSE np_interp_at(x, xp, fp, where_le_last(xp, x))

interp_raises(xp) == Len(xp) = 0

np_interp_array(x0, xp, fp) == [j \in 1..Len(x0) |-> np_interp(x0[j], xp, fp)]

(***************************************************************************)
(* _circular_interp                                                        *)
(***************************************************************************)
\* (variant: plain linear interpolation of the hue, no shift by 1.0)
circular_interp_at_linear(x, xx, hh, idx) ==
    IF idx = Len(hh) THEN hh[Len(hh)] ELSE np_interp(x, xx, hh)

\* (variant: the shifted hue is not reduced modulo 1.0)
circular_interp_at_nomod(x, xx, hh, idx) ==
    IF idx = Len(hh) THEN hh[Len(hh)]
    ELSE IF Lt(Half, Sub(hh[idx + 1], hh[idx]))
         THEN np_interp(x, xx, [hh EXCEPT ![idx] = Add(hh[idx], One)])
    ELSE IF Lt(Sub(hh[idx + 1], hh[idx]), R(-1, 2))
         THEN np_interp(x, xx, [hh EXCEPT ![idx + 1] = Add(hh[idx + 1], One)])
    ELSE np_interp(x, xx, hh)

\* the loop body for the position x, once idx is known (idx is 1-based)
circular_interp_at(x, xx, hh, idx) ==
    IF idx = Len(hh) THEN hh[Len(hh)]
    ELSE IF Lt(Half, Sub(hh[idx + 1], hh[idx]))
         THEN Mod1(np_interp(x, xx, [hh EXCEPT ![idx] = Add(hh[idx], One)]))
    ELSE IF Lt(Sub(hh[idx + 1], hh[idx]), R(-1, 2))
         THEN Mod1(np_interp(x, xx,
                             [hh EXCEPT ![idx + 1] = Add(hh[idx + 1], One)]))
    ELSE np_interp(x, xx, hh)

\* one pass of the loop for the position x
circular_interp_one(x, xx, hh) ==
    circular_interp_at(x, xx, hh, where_le_last(xx, x))

\* np.where(xx<=x)[0][-1] raises IndexError when no sample point is <= x
circular_interp_raises(x0, xx) ==
    \E j \in 1..Len(x0) : where_le_last(xx, x0[j]) = 0

_circular_interp(x0, xx, hh) ==
    [j \in 1..Len(x0) |-> circular_interp_one(x0[j], xx, hh)]

(***************************************************************************)
(* The environment: colors.par, the plotting application, the file system  *)
(***************************************************************************)
\* colors.par: the parameter file of named colors, 'name' -> "r g b".
\* "hue95" and "hue05" have the HSV hues 0.95 and 0.05; "hot" has a channel
\* above 1 and "duo" only two channels.  "nosuch" (used as an input below)
\* is not in the file.
colors_par ==
    [n \in {"black", "white", "red", "blue", "olive", "pink",
            "hue95", "hue05", "hot", "duo"} |->
        CASE n = "black" -> <<Zero, Zero, Zero>>
          [] n = "white" -> <<One, One, One>>
          [] n = "red"   -> <<One, Zero, Zero>>
          [] n = "blue"  -> <<Zero, Zero, One>>
          [] n = "olive" -> <<R(3, 10), R(1, 2), R(1, 5)>>
          [] n = "pink"  -> <<One, R(3, 4), R(4, 5)>>
          [] n = "hue95" -> <<One, Zero, R(3, 10)>>
          [] n = "hue05" -> <<One, R(3, 10), Zero>>
          [] n = "hot"   -> <<R(3, 2), Zero, Zero>>
          [] OTHER       -> <<One, Zero>>]

\* pychips colormap identifiers
chips_usercmap1 == "chips_usercmap1"
chips_usercmap2 == "chips_usercmap2"
chips_usercmap3 == "chips_usercmap3"
chips_grayscale == "chips_grayscale"
UserSlots == {chips_usercmap1, chips_usercmap2, chips_usercmap3}

\* the string -> identifier table of _check_cmap
trans ==
    [c \in {"usercmap1", "usercmap2", "usercmap3"} |->
        CASE c = "usercmap1" -> chips_usercmap1
          [] c = "usercmap2" -> chips_usercmap2
          [] OTHER           -> chips_usercmap3]

NoArg == "<not given>"      \* a keyword argument the caller left out
None == "None"
NoTable == <<>>             \* a colormap slot nothing was loaded into
NoFile == [exists |-> FALSE, rows |-> <<>>]
NoImage == "<no image>"
FileNames == {"ramp.lut", "/nodir/ramp.lut"}
\* paths that open(outfile, "w") cannot create
Unwritable == {"/nodir/ramp.lut"}

VARIABLES
    usercmap,   \* pychips: slot -> <<red, green, blue>> given to load_colormap
    image,      \* pychips: colormap of the current image, NoImage if none
    files,      \* file system: name -> [exists, rows written]
    last,       \* the most recent lut_colors call: arguments, locals, outcome
    calls,      \* number of lut_colors calls made
    req,        \* the ramp request about to be made (SpecRamp), or NoRequest
    probe,      \* SpecTwice: the ramp the first call with req produced, and
                \* the outcomes of the calls made since
    globbed,    \* file system: what glob("$HOME/.ds9/LUT/*/") returns
    box,        \* a BoxWhiskerPlot object and the outcome of its last method
    lut,        \* a LUTPlot object
    chips,      \* pychips: the objects of the plots, the current plot and
                \* the undo stack
    arg,        \* the arguments of the function called
    ret         \* what that function returned or raised

vars == <<usercmap, image, files, last, calls, req, probe, globbed, box,
          lut, chips, arg, ret>>

\* what lut_colors and add_image leave alone
aside == <<globbed, box, lut, chips, arg, ret>>

\* Python values handed from one call to another
PyNone == [type |-> "NoneType", val |-> <<>>]
PyTuple(t) == [type |-> "tuple", val |-> t]
PyStr(s) == [type |-> "str", val |-> <<s>>]

NoCall ==
    [op |-> "none", colors |-> <<>>, cmap |-> NoArg, num_colors |-> 0,
     outfile |-> None, colorsys |-> "", err |-> "none", at |-> "",
     hsvs |-> <<>>, hh_i |-> <<>>, ss_i |-> <<>>, vv_i |-> <<>>,
     rgbs_i |-> <<>>, loaded |-> FALSE, ret |-> PyNone]

NoRequest == [colors |-> <<>>, num_colors |-> 0, colorsys |-> ""]
NoProbe == [ramp |-> NoTable, between |-> {}]

\* no function is about to be called, none has returned
NoArgs == [op |-> "none"]
NoReturn == [op |-> "none", err |-> "none", val |-> <<>>]

\* no BoxWhiskerPlot object has been made
NoBox ==
    [op |-> "none", given |-> "", err |-> "none", at |-> "",
     grid_regions |-> <<>>, sizes |-> <<>>, colors |-> <<>>,
     hex_codes |-> <<>>, num_colors |-> 0, cmap |-> None, image |-> None,
     min_z |-> 0, max_z |-> 0]

\* src/lutplot.py lines 163-178: the attributes of the class; made tells
\* that __init__ has returned
NoLUTPlot ==
    [made |-> FALSE, hex_codes |-> <<>>, num_colors |-> 0, filename |-> "",
     cmap |-> "", curves |-> PyNone, image |-> PyNone, min_z |-> PyNone,
     max_z |-> PyNone, rx |-> PyNone, ry |-> PyNone, axis_names |-> PyNone,
     lut_win |-> PyNone, lut_frame |-> PyNone, lut_plot |-> PyNone,
     old_win |-> PyNone, old_frame |-> PyNone, old_plot |-> PyNone,
     order |-> PyNone]

\* The plotting application as the package uses it: the objects that
\* info() lists, the current window, frame and plot, the range of the axes
\* and the undo stack
DefaultObjectColor == "default"

\* an object of a plot: the Window, Frame and Plot lines info() lists it
\* under, and its own line, "<type> [<id>]"
Object(win, frm, plt, type, id) ==
    [win |-> win, frm |-> frm, plt |-> plt, type |-> type, id |-> id,
     color |-> DefaultObjectColor]

\* what info_current() names: nothing at all when there is no window
NoCurrent == [win |-> <<>>, frm |-> <<>>, plt |-> <<>>]

CurrentPlot(win, frm, plt) ==
    [win |-> <<win>>, frm |-> <<frm>>, plt |-> <<plt>>]

\* no axis yet
NoLimits == [x |-> <<>>, y |-> <<>>]

\* objs: the objects in the order of info(), the order they were made in;
\* limits: the range of the axes; stems: the stem of every curve made so
\* far; depth: undo blocks open; block: the changes made in the open
\* block; done: the units undo() reverts, last one first; undone: those
\* redo() applies again; trace: the commands the last call gave
NoChips ==
    [objs |-> <<>>, current |-> NoCurrent, limits |-> NoLimits,
     stems |-> <<>>, depth |-> 0, block |-> <<>>, done |-> <<>>,
     undone |-> <<>>, trace |-> <<>>]

\* what undo() and redo() bring back
snapshot(c) ==
    [objs |-> c.objs, current |-> c.current, limits |-> c.limits]

restored(c, s) ==
    [c EXCEPT !.objs = s.objs, !.current = s.current, !.limits = s.limits]

\* a command is a unit of its own unless an undo block is open
committed(c, unit) ==
    IF unit = <<>> THEN c
    ELSE [c EXCEPT !.done = Append(@, unit), !.undone = <<>>]

\* a command has turned c into d
changed(c, d) ==
    IF c.depth > 0
    THEN [d EXCEPT !.block = Append(@, [before |-> snapshot(c),
                                         after |-> snapshot(d)])]
    ELSE committed(d, <<[before |-> snapshot(c), after |-> snapshot(d)]>>)

open_undo_block(c) ==
    [c EXCEPT !.depth = @ + 1, !.trace = Append(@, <<"open_undo_block">>)]

close_undo_block(c) ==
    IF c.depth = 1
    THEN [committed(c, c.block) EXCEPT !.depth = 0, !.block = <<>>,
                                       !.trace = Append(@, <<"close_undo_block">>)]
    ELSE [c EXCEPT !.depth = IF @ > 0 THEN @ - 1 ELSE 0,
                   !.trace = Append(@, <<"close_undo_block">>)]

\* the type of object each setter changes
setter_type ==
    [set_curve |-> "Curve", set_histogram |-> "Histogram",
     set_region |-> "Region", set_point |-> "Point", set_line |-> "Line"]

in_current_plot(c, o) ==
    /\ c.current.win # <<>> /\ o.win = c.current.win[1]
    /\ c.current.frm # <<>> /\ o.frm = c.current.frm[1]
    /\ c.current.plt # <<>> /\ o.plt = c.current.plt[1]

\* the objects setter(id, ...) changes: those of the current plot named id
targets(c, setter, id) ==
    {k \in 1..Len(c.objs) :
        /\ in_current_plot(c, c.objs[k])
        /\ c.objs[k].type = setter_type[setter]
        /\ c.objs[k].id = id}

recolored(c, k, color) == changed(c, [c EXCEPT !.objs[k].color = color])

\* setter(id, "*.color=<color>"), and set_curve(id, "line.color=<color>
\* symbol.color=<color>"): the colors of the object become <color>
set_color(c, setter, id, color) ==
    IF targets(c, setter, id) = {}
    THEN [c EXCEPT !.trace = Append(@, <<setter, id, color>>)]
    ELSE recolored([c EXCEPT !.trace = Append(@, <<setter, id, color>>)],
                   CHOOSE k \in targets(c, setter, id) : TRUE, color)

\* undo() and redo() of the application
chips_undo(c) ==
    [restored(c, c.done[Len(c.done)][1].before) EXCEPT
        !.done = SubSeq(@, 1, Len(@) - 1),
        !.undone = Append(@, c.done[Len(c.done)])]

chips_redo(c) ==
    [restored(c, c.undone[Len(c.undone)][Len(c.undone[Len(c.undone)])].after)
     EXCEPT
        !.undone = SubSeq(@, 1, Len(@) - 1),
        !.done = Append(@, c.undone[Len(c.undone)])]

\* the application and the file system before the first call
Start ==
    /\ usercmap = [s \in UserSlots |-> NoTable]
    /\ image = NoImage
    /\ files = [f \in FileNames |-> NoFile]
    /\ last = NoCall
    /\ calls = 0
    /\ probe = NoProbe
    /\ globbed = <<>>
    /\ box = NoBox
    /\ lut = NoLUTPlot
    /\ chips = NoChips

\* no function is being called on its own
Uncalled == arg = NoArgs /\ ret = NoReturn

Init == Start /\ Uncalled /\ req = NoRequest

(***************************************************************************)
(* lut_colors: the decorated function body                                 *)
(***************************************************************************)
ColorSystems == {"rgb", "hsv", "hls"}

\* the conversion into the working color space selected by colorsys
to_colorsys(colorsys, c) ==
    CASE colorsys = "rgb" -> c
      [] colorsys = "hsv" -> rgb_to_hsv(c)
      [] OTHER            -> rgb_to_hls(c)

\* the function bound to invert
invert(colorsys, h, s, v) ==
    CASE colorsys = "rgb" -> _noop(h, s, v)
      [] colorsys = "hsv" -> hsv_to_rgb(h, s, v)
      [] OTHER            -> hls_to_rgb(h, s, v)

\* the function bound to interp, applied to the first channel
interp(colorsys, x0, xx, hh) ==
    IF colorsys = "rgb" THEN np_interp_array(x0, xx, hh)
    ELSE _circular_interp(x0, xx, hh)

Raised(exc, where) ==
    [err |-> exc, at |-> where, hsvs |-> <<>>, hh_i |-> <<>>, ss_i |-> <<>>,
     vv_i |-> <<>>, rgbs_i |-> <<>>]

\* lines 325-329: the interpolated channels converted back to RGB
ramp_of_channels(hsvs, hh_i, ss_i, vv_i, colorsys) ==
    [err |-> "none", at |-> "", hsvs |-> hsvs, hh_i |-> hh_i,
     ss_i |-> ss_i, vv_i |-> vv_i,
     rgbs_i |-> [j \in 1..Len(hh_i) |->
                    invert(colorsys, hh_i[j], ss_i[j], vv_i[j])]]

\* lines 321-323: the three interpolations at the positions x0
ramp_of_positions(hsvs, hh, ss, vv, xx, x0, colorsys) ==
    IF colorsys = "rgb" /\ interp_raises(xx)
    THEN Raised("ValueError", "interp")
    ELSE IF colorsys # "rgb" /\ circular_interp_raises(x0, xx)
    THEN Raised("IndexError", "_circular_interp")
    ELSE IF interp_raises(xx)
    THEN Raised("ValueError", "interp")
    ELSE ramp_of_channels(hsvs, interp(colorsys, x0, xx, hh),
                          np_interp_array(x0, xx, ss),
                          np_interp_array(x0, xx, vv), colorsys)

\* (variant: x0 = np.arange(num_colors-1)/(num_colors-1.0), one sample short)
ramp_of_hsvs_short(hsvs, num_colors, colorsys) ==
    ramp_of_positions(hsvs,
                      [i \in 1..Len(hsvs) |-> hsvs[i][1]],
                      [i \in 1..Len(hsvs) |-> hsvs[i][2]],
                      [i \in 1..Len(hsvs) |-> hsvs[i][3]],
                      arange_div(Len(hsvs)),
                      [j \in 1..(num_colors - 1) |->
                          Div(R(j - 1, 1), R(num_colors - 1, 1))],
                      colorsys)

\* lines 314-319: the channel lists and the two position arrays
ramp_of_hsvs(hsvs, num_colors, colorsys) ==
    ramp_of_positions(hsvs,
                      [i \in 1..Len(hsvs) |-> hsvs[i][1]],
                      [i \in 1..Len(hsvs) |-> hsvs[i][2]],
                      [i \in 1..Len(hsvs) |-> hsvs[i][3]],
                      arange_div(Len(hsvs)), arange_div(num_colors), colorsys)

\* (variant: an unknown colorsys falls back to "rgb" instead of raising)
ramp_of_rgbs_fallback(rgbs, num_colors, colorsys) ==
    IF colorsys \in {"hsv", "hls"} /\ \E i \in 1..Len(rgbs) : Len(rgbs[i]) # 3
    THEN Raised("TypeError", "convert")
    ELSE IF \E i \in 1..Len(rgbs) : Len(rgbs[i]) < 3
    THEN Raised("IndexError", "channels")
    ELSE IF colorsys \in {"hsv", "hls"}
    THEN ramp_of_hsvs([i \in 1..Len(rgbs) |-> to_colorsys(colorsys, rgbs[i])],
                      num_colors, colorsys)
    ELSE ramp_of_hsvs(rgbs, num_colors, "rgb")

\* lines 299-316: the dispatch on colorsys and the conversion of the anchors
ramp_of_rgbs(rgbs, num_colors, colorsys) ==
    IF colorsys \notin ColorSystems
    THEN Raised("ValueError", "colorsys")
    ELSE IF colorsys # "rgb" /\ \E i \in 1..Len(rgbs) : Len(rgbs[i]) # 3
    THEN Raised("TypeError", "convert")
    ELSE IF \E i \in 1..Len(rgbs) : Len(rgbs[i]) < 3
    THEN Raised("IndexError", "channels")
    ELSE ramp_of_hsvs([i \in 1..Len(rgbs) |-> to_colorsys(colorsys, rgbs[i])],
                      num_colors, colorsys)

\* (variant: the anchors of a call that returned are kept, and the next
\* call's anchors are appended to them)
build_ramp_keeping(colors, num_colors, colorsys) ==
    IF \E i \in 1..Len(colors) : colors[i] \notin DOMAIN colors_par
    THEN Raised("ValueError", "_color_to_tripple")
    ELSE ramp_of_rgbs([i \in 1..Len((IF last.err = "none" THEN last.colors
                                     ELSE <<>>) \o colors) |->
                          colors_par[((IF last.err = "none" THEN last.colors
                                       ELSE <<>>) \o colors)[i]]],
                      num_colors, colorsys)

\* lines 297-329: the locals of lut_colors when it reaches load_colormap,
\* or the exception raised on the way
build_ramp(colors, num_colors, colorsys) ==
    IF \E i \in 1..Len(colors) : colors[i] \notin DOMAIN colors_par
    THEN Raised("ValueError", "_color_to_tripple")
    ELSE ramp_of_rgbs([i \in 1..Len(colors) |-> colors_par[colors[i]]],
                      num_colors, colorsys)

\* the three lists handed to load_colormap
channels(rgbs_i) ==
    <<[j \in 1..Len(rgbs_i) |-> rgbs_i[j][1]],
      [j \in 1..Len(rgbs_i) |-> rgbs_i[j][2]],
      [j \in 1..Len(rgbs_i) |-> rgbs_i[j][3]]>>

\* the rows written to outfile, one "r\tg\tb\n" line per color
lines(rgbs_i) == [j \in 1..Len(rgbs_i) |-> rgbs_i[j]]

(***************************************************************************)
(* lut_colors as the caller sees it: _check_cmap's wrapper around the body *)
(***************************************************************************)
Call(colors, cmap, num_colors, outfile, colorsys, b, where, exc, didload) ==
    [op |-> "lut_colors", colors |-> colors, cmap |-> cmap,
     num_colors |-> num_colors, outfile |-> outfile, colorsys |-> colorsys,
     err |-> exc, at |-> where, hsvs |-> b.hsvs, hh_i |-> b.hh_i,
     ss_i |-> b.ss_i, vv_i |-> b.vv_i, rgbs_i |-> b.rgbs_i,
     loaded |-> didload,
     \* neither the body (lines 333-338) nor the wrapper (lines 107-131)
     \* has a return statement with a value
     ret |-> PyNone]

\* the wrapper, given what the body computes (b)
wrapper(colors, cmap_kw, num_colors, outfile, colorsys, b) ==
    LET cmap == IF cmap_kw = NoArg THEN chips_usercmap1 ELSE cmap_kw
        known == cmap_kw = NoArg \/ cmap \in DOMAIN trans \/ cmap \in UserSlots
        slot == IF cmap \in DOMAIN trans THEN trans[cmap] ELSE cmap
    IN
    /\ calls' = calls + 1
    /\ IF ~known
       THEN \* _check_cmap: "Unsupported color map slot"
            /\ last' = Call(colors, cmap_kw, num_colors, outfile, colorsys,
                            Raised("ValueError", "_check_cmap"),
                            "_check_cmap", "ValueError", FALSE)
            /\ UNCHANGED <<usercmap, image, files>>
       ELSE IF b.err # "none"
       THEN \* the body raised before load_colormap
            /\ last' = Call(colors, cmap_kw, num_colors, outfile, colorsys,
                            b, b.at, b.err, FALSE)
            /\ UNCHANGED <<usercmap, image, files>>
       ELSE
            /\ usercmap' = [usercmap EXCEPT ![slot] = channels(b.rgbs_i)]
            /\ IF outfile = None
               THEN /\ files' = files
                    /\ last' = Call(colors, cmap_kw, num_colors, outfile,
                                    colorsys, b, "", "none", TRUE)
                    /\ image' = IF image # NoImage THEN cmap ELSE image
               ELSE IF outfile \in Unwritable
               THEN \* open(outfile, "w") raises; the wrapper is left
                    /\ files' = files
                    /\ last' = Call(colors, cmap_kw, num_colors, outfile,
                                    colorsys, b, "open", "IOError", TRUE)
                    /\ image' = image
               ELSE /\ files' = [files EXCEPT ![outfile] =
                                        [exists |-> TRUE, rows |-> lines(b.rgbs_i)]]
                    /\ last' = Call(colors, cmap_kw, num_colors, outfile,
                                    colorsys, b, "", "none", TRUE)
                    /\ image' = IF image # NoImage THEN cmap ELSE image

lut_colors(colors, cmap_kw, num_colors, outfile, colorsys) ==
    wrapper(colors, cmap_kw, num_colors, outfile, colorsys,
            build_ramp(colors, num_colors, colorsys))

\* pychips add_image: an image with the default gray-scale colormap becomes
\* the current image
add_image ==
    /\ image = NoImage
    /\ image' = chips_grayscale
    /\ UNCHANGED <<usercmap, files, last, calls, req, probe, aside>>

(***************************************************************************)
(* hexify (src/hexify.py)                                                  *)
(***************************************************************************)
HexDigits == <<"0", "1", "2", "3", "4", "5", "6", "7", "8", "9",
               "A", "B", "C", "D", "E", "F">>

\* the digits of "{:X}".format(ival), ival >= 0
RECURSIVE upper_hex(_)
upper_hex(ival) ==
    IF ival < 16 THEN HexDigits[ival + 1]
    ELSE upper_hex(ival \div 16) \o HexDigits[(ival % 16) + 1]

\* "{:02X}".format(ival): at least two digits, padded with a zero
format_02X(ival) ==
    IF ival < 16 THEN "0" \o upper_hex(ival) ELSE upper_hex(ival)

\* (variant: the line that handles the 1.0 case is missing)
hexify_of_ival_unclipped(ival) == format_02X(ival)

\* lines 56-58: the byte is capped at 255 and formatted
hexify_of_ival(ival) == format_02X(IF ival <= 255 THEN ival ELSE 255)

\* lines 51-52; int(val) of a NaN raises ValueError as well
hexify_raises(value) ==
    IsNaN(value) \/ Lt(value, Zero) \/ Lt(One, value)

\* lines 54-58, for a value that passed the range check
hexify(value) == hexify_of_ival(Floor(Mul(value, R(256, 1))))

color_by_value_raises(red, green, blue) ==
    hexify_raises(red) \/ hexify_raises(green) \/ hexify_raises(blue)

color_by_value(red, green, blue) ==
    hexify(red) \o hexify(green) \o hexify(blue)

(***************************************************************************)
(* _utils (src/_utils.py): locating and reading a lookup table             *)
(***************************************************************************)
\* the environment of a CIAO session
ASCDS_INSTALL == "/ciao"
ASCDS_CONTRIB == "/ciao/contrib"
HOME == "/home/u"

\* pycrates.read_file succeeds on the files that exist
read_file_ok(path) == path \in DOMAIN files /\ files[path].exists

\* get_colvals(tab, k) * 1.0, k = 0, 1, 2
get_colvals(path, k) ==
    [i \in 1..Len(files[path].rows) |-> files[path].rows[i][k + 1]]

\* lines 18-22: the directories searched, in order
tox ==
    <<"", ASCDS_INSTALL \o "/data/", ASCDS_CONTRIB \o "/data/",
      HOME \o "/.ds9/">> \o globbed

NotFound == "<IOError>"

\* lines 25-37: the loop from its i-th directory on; the path read, if any
RECURSIVE _try_hard_to_locate_from(_, _)
_try_hard_to_locate_from(i, filename) ==
    IF i > Len(tox) THEN NotFound
    ELSE IF read_file_ok(tox[i] \o filename) THEN tox[i] \o filename
    ELSE IF read_file_ok(tox[i] \o filename \o ".lut")
    THEN tox[i] \o filename \o ".lut"
    ELSE _try_hard_to_locate_from(i + 1, filename)

\* lines 24-40: the path whose table is returned, or NotFound for IOError
_try_hard_to_locate(filename) == _try_hard_to_locate_from(1, filename)

\* the outcome of a helper: an exception, or the three channels
Channels(rr, gg, bb) ==
    [err |-> "none", at |-> "", rr |-> rr, gg |-> gg, bb |-> bb]
NoChannels(exc, where) ==
    [err |-> exc, at |-> where, rr |-> <<>>, gg |-> <<>>, bb |-> <<>>]

OutOfRange(x) == Lt(x, Zero) \/ Lt(One, x)

\* lines 47-69
_unzip_stuff(filename) ==
    IF filename.type = "NoneType"
    THEN NoChannels("TypeError", "_unzip_stuff")  \* len(None)
    ELSE IF 3 # Len(filename.val)
    THEN NoChannels("IndexError", "_unzip_stuff")
    ELSE IF \/ Len(filename.val[1]) # Len(filename.val[2])
            \/ Len(filename.val[1]) # Len(filename.val[3])
            \/ Len(filename.val[2]) # Len(filename.val[3])
    THEN NoChannels("IndexError", "_unzip_stuff")
    ELSE IF \E k \in 1..3 : \E j \in 1..Len(filename.val[k]) :
                OutOfRange(filename.val[k][j])
    THEN NoChannels("IndexError", "_unzip_stuff")
    ELSE Channels(filename.val[1], filename.val[2], filename.val[3])

reversed(a) == [j \in 1..Len(a) |-> a[Len(a) + 1 - j]]
inverted(a) == [j \in 1..Len(a) |-> Sub(One, a[j])]

\* lines 102-112: reverse and invert; a Python list cannot be subtracted
\* from 1.0, a column read from a file (a numpy array) can
get_rgb_values_of(c, is_array, reverse_kw, invert_kw) ==
    IF c.err # "none" THEN c
    ELSE IF invert_kw /\ ~is_array
    THEN NoChannels("TypeError", "get_rgb_values")
    ELSE IF reverse_kw /\ invert_kw
    THEN Channels(inverted(reversed(c.rr)), inverted(reversed(c.gg)),
                  inverted(reversed(c.bb)))
    ELSE IF reverse_kw
    THEN Channels(reversed(c.rr), reversed(c.gg), reversed(c.bb))
    ELSE IF invert_kw
    THEN Channels(inverted(c.rr), inverted(c.gg), inverted(c.bb))
    ELSE c

\* lines 97-100, given the path the search returned
located_channels(path) ==
    IF path = NotFound THEN NoChannels("IOError", "_try_hard_to_locate")
    ELSE Channels(get_colvals(path, 0), get_colvals(path, 1),
                  get_colvals(path, 2))

\* lines 90-112
get_rgb_values(filename, reverse_kw, invert_kw) ==
    IF filename.type = "str"
    THEN get_rgb_values_of(
             located_channels(_try_hard_to_locate(filename.val[1])),
             TRUE, reverse_kw, invert_kw)
    ELSE get_rgb_values_of(_unzip_stuff(filename), FALSE, reverse_kw, invert_kw)

\* lines 71-87: the hex code of every color, or the ValueError of hexify
get_rgb_hexcodes_raises(rr, gg, bb) ==
    \/ \E j \in 1..Len(rr) : hexify_raises(rr[j])
    \/ \E j \in 1..Len(gg) : hexify_raises(gg[j])
    \/ \E j \in 1..Len(bb) : hexify_raises(bb[j])

\* zip() stops at the end of the shortest list
shortest(a, b, c) ==
    IF a <= b /\ a <= c THEN a ELSE IF b <= c THEN b ELSE c

get_rgb_hexcodes(rr, gg, bb) ==
    [j \in 1..shortest(Len(rr), Len(gg), Len(bb)) |->
        hexify(rr[j]) \o hexify(gg[j]) \o hexify(bb[j])]

(***************************************************************************)
(* Double-precision arithmetic of the sampling in color_curves and of the  *)
(* bins of LUTPlot.plot                                                    *)
(*                                                                         *)
(* A non-negative double is [bits, frac]: bits is its significand in       *)
(* binary, most significant bit first and without leading zeros (<<>> is   *)
(* zero), of at most Precision bits; frac is the number of those bits that *)
(* lie behind the binary point.  Results are rounded to nearest, ties to   *)
(* even, as the hardware rounds them.                                      *)
(***************************************************************************)
Precision == 53

\* the binary numeral of a natural number
RECURSIVE bin(_)
bin(n) == IF n = 0 THEN <<>> ELSE bin(n \div 2) \o <<n % 2>>

\* the natural number of a (short) binary numeral
RECURSIVE nat_of(_)
nat_of(bits) ==
    IF bits = <<>> THEN 0
    ELSE 2 * nat_of(SubSeq(bits, 1, Len(bits) - 1)) + bits[Len(bits)]

\* bits + 1
RECURSIVE increment(_)
increment(bits) ==
    IF bits = <<>> THEN <<1>>
    ELSE IF bits[Len(bits)] = 0
    THEN SubSeq(bits, 1, Len(bits) - 1) \o <<1>>
    ELSE increment(SubSeq(bits, 1, Len(bits) - 1)) \o <<0>>

\* the double of a natural number below 2^Precision
double(n) == [bits |-> bin(n), frac |-> 0]

\* a significand of Precision + 1 bits after a carry loses its last bit
renormalized(bits, frac) ==
    IF Len(bits) > Precision
    THEN [bits |-> SubSeq(bits, 1, Precision), frac |-> frac - 1]
    ELSE [bits |-> bits, frac |-> frac]

\* the kept bits, rounded by the first dropped bit (guard) and by whether
\* any later dropped bit is set (sticky)
rounded(kept, frac, guard, sticky) ==
    IF guard = 1 /\ (sticky \/ kept[Len(kept)] = 1)
    THEN renormalized(increment(kept), frac)
    ELSE [bits |-> kept, frac |-> frac]

\* an exact significand of any length rounded to Precision bits
round_to_precision(bits, frac) ==
    IF Len(bits) <= Precision THEN [bits |-> bits, frac |-> frac]
    ELSE rounded(SubSeq(bits, 1, Precision),
                 frac - (Len(bits) - Precision),
                 bits[Precision + 1],
                 \E j \in (Precision + 2)..Len(bits) : bits[j] = 1)

\* long division r/b continued behind the bits found so far (frac is never
\* negative and carry, below, never is: the tests on them only make the
\* model checker evaluate them at every step)
RECURSIVE quotient(_, _, _, _)
quotient(bits, frac, r, b) ==
    IF r = 0 \/ frac < 0 THEN [bits |-> bits, frac |-> frac]
    ELSE IF Len(bits) = Precision
    THEN rounded(bits, frac, (2 * r) \div b, (2 * r) % b # 0)
    ELSE quotient(IF bits = <<>> /\ (2 * r) \div b = 0 THEN <<>>
                  ELSE bits \o <<(2 * r) \div b>>,
                  frac + 1, (2 * r) % b, b)

\* float(a) / float(b) for natural numbers a and b, b > 0
fl_div(a, b) == quotient(bin(a \div b), 0, a % b, b)

\* the exact product of a binary numeral and a natural number, digits
\* 1..k of the numeral with the carry of the digits behind them
RECURSIVE times(_, _, _, _)
times(bits, k, n, carry) ==
    IF carry >= 0 /\ k = 0 THEN bin(carry)
    ELSE times(bits, k - 1, n, (bits[k] * n + carry) \div 2)
            \o <<(bits[k] * n + carry) % 2>>

\* x * float(n) for a double x and a natural number n
fl_mul(x, n) ==
    IF n = 0 \/ x.bits = <<>> THEN [bits |-> <<>>, frac |-> 0]
    ELSE round_to_precision(times(x.bits, Len(x.bits), n, 0), x.frac)

\* a binary numeral without its leading zeros
RECURSIVE bin_trimmed(_)
bin_trimmed(bits) ==
    IF bits = <<>> \/ bits[1] = 1 THEN bits
    ELSE bin_trimmed(SubSeq(bits, 2, Len(bits)))

\* the sum of two binary numerals of the same length with the carry of the
\* digits behind the first k
RECURSIVE sum(_, _, _, _)
sum(a, b, k, carry) ==
    IF carry >= 0 /\ k = 0 THEN bin(carry)
    ELSE sum(a, b, k - 1, (a[k] + b[k] + carry) \div 2)
            \o <<(a[k] + b[k] + carry) % 2>>

\* a binary numeral brought to n digits: zeros in front, zeros behind
leading(bits, n) == [j \in 1..(n - Len(bits)) |-> 0] \o bits
trailing(bits, n) == bits \o [j \in 1..n |-> 0]

larger(m, n) == IF m < n THEN n ELSE m

\* the significands of x and y with frac binary places each, added
sum_at(xb, yb, frac) ==
    round_to_precision(
        bin_trimmed(sum(leading(xb, larger(Len(xb), Len(yb))),
                        leading(yb, larger(Len(xb), Len(yb))),
                        larger(Len(xb), Len(yb)), 0)),
        frac)

\* x + y for doubles x and y
fl_add(x, y) ==
    IF x.bits = <<>> THEN y
    ELSE IF y.bits = <<>> THEN x
    ELSE sum_at(trailing(x.bits, larger(x.frac, y.frac) - x.frac),
                trailing(y.bits, larger(x.frac, y.frac) - y.frac),
                larger(x.frac, y.frac))

\* int(x): the integer part (x is below 2^31 and frac >= 0)
int(x) ==
    IF x.frac >= Len(x.bits) THEN 0
    ELSE nat_of(SubSeq(x.bits, 1, Len(x.bits) - x.frac))

\* np.round(x): the nearest integer, a tie goes to the even one
np_round(x) ==
    IF x.frac = 0 THEN int(x)
    ELSE IF x.frac > Len(x.bits) THEN 0
    ELSE int(x) +
         (IF /\ x.bits[Len(x.bits) - x.frac + 1] = 1
             /\ \/ \E j \in (Len(x.bits) - x.frac + 2)..Len(x.bits) :
                      x.bits[j] = 1
                \/ int(x) % 2 = 1
          THEN 1 ELSE 0)

\* a bit behind the binary point is set
has_fraction(x) ==
    \E j \in 1..Len(x.bits) : j > Len(x.bits) - x.frac /\ x.bits[j] = 1

\* z >= x and z < x for an integer z and a double x; Inf is np.inf
Inf == [bits |-> <<>>, frac |-> -1]
int_ge(z, x) == x # Inf /\ (z > int(x) \/ (z = int(x) /\ ~has_fraction(x)))
int_lt(z, x) == x = Inf \/ ~int_ge(z, x)

(***************************************************************************)
(* color_curves (src/color_curves.py): sampling a lookup table             *)
(***************************************************************************)
\* a[ii] of a Python list, ii counted from 0 and -1 being the last item;
\* IndexError outside -len(a)..len(a)-1
list_item_raises(a, ii) == ii >= Len(a) \/ ii < -Len(a)
list_item(a, ii) == IF ii >= 0 THEN a[ii + 1] ELSE a[Len(a) + 1 + ii]

\* lines 59-70: the loop of the nested _try_hard_to_locate from its i-th
\* directory on
RECURSIVE color_curves_try_hard_to_locate_from(_, _)
color_curves_try_hard_to_locate_from(i, filename) ==
    IF i > Len(tox) THEN NotFound
    ELSE IF read_file_ok(tox[i] \o filename) THEN tox[i] \o filename
    ELSE IF read_file_ok(tox[i] \o filename \o ".lut")
    THEN tox[i] \o filename \o ".lut"
    ELSE color_curves_try_hard_to_locate_from(i + 1, filename)

\* lines 44-70: the file whose crate is returned, or NotFound for IOError
color_curves_try_hard_to_locate(filename) ==
    color_curves_try_hard_to_locate_from(1, filename)

\* the outcome of the sampling: an exception, or the colors returned (val)
\* and the table entry, counted from 0, each of them was taken from (idx)
Sampled(val, idx) == [err |-> "none", at |-> "", val |-> val, idx |-> idx]
NoSample(exc, where) == [err |-> exc, at |-> where, val |-> <<>>, idx |-> <<>>]

\* the xform arguments modelled: _linear (line 33) and lambda x: x**2
xform_of(xform, x) == IF xform = "_linear" THEN x ELSE x * x

\* what round(nan).astype("i4") can give, depending on the processor
NanAsInt == {-2147483647 - 1, 0}

\* lines 116-125, nclrs >= 1: the table entry each position is mapped to;
\* with one color zp is 0/0.0
_trans(xform, nclrs, nan_i4) ==
    IF nclrs = 1 THEN <<nan_i4>>
    ELSE [j \in 1..nclrs |->
            np_round(fl_mul(fl_div(xform_of(xform, j) - xform_of(xform, 1),
                                   xform_of(xform, nclrs) - xform_of(xform, 1)),
                            nclrs - 1))]

\* lines 128-129: int(i) for i in np.arange(0,num_sample)*dl
sample_positions(nclrs, num_sample) ==
    [i \in 1..num_sample |->
        int(fl_mul(fl_div(nclrs - 1, num_sample - 1), i - 1))]

\* line 129: hex_codes[tmap[int(i)]] for every position
picked(hex_codes, tmap, positions) ==
    IF \E i \in 1..Len(positions) :
          \/ positions[i] >= Len(tmap)
          \/ list_item_raises(hex_codes, tmap[positions[i] + 1])
    THEN NoSample("IndexError", "retval")
    ELSE Sampled([i \in 1..Len(positions) |->
                     list_item(hex_codes, tmap[positions[i] + 1])],
                 [i \in 1..Len(positions) |-> tmap[positions[i] + 1]])

\* lines 112-131, given the hex codes of the table
sampled_from(hex_codes, num_sample, xform, nan_i4) ==
    IF 1 = num_sample
    THEN IF hex_codes = <<>> THEN NoSample("IndexError", "hex_codes[0]")
         ELSE Sampled(<<hex_codes[1]>>, <<0>>)
    ELSE IF hex_codes = <<>>
    THEN NoSample("ValueError", "_trans")     \* np.min of an empty array
    ELSE IF num_sample <= 0
    THEN Sampled(<<>>, <<>>)                  \* np.arange(0, num_sample)
    ELSE picked(hex_codes, _trans(xform, Len(hex_codes), nan_i4),
                sample_positions(Len(hex_codes), num_sample))

\* lines 86-110, given the channels read from the file
sampled_from_channels(c, num_sample, xform, nan_i4) ==
    IF c.err # "none" THEN NoSample(c.err, c.at)
    ELSE IF get_rgb_hexcodes_raises(c.rr, c.gg, c.bb)
    THEN NoSample("ValueError", "hexify")
    ELSE sampled_from(get_rgb_hexcodes(c.rr, c.gg, c.bb), num_sample, xform,
                      nan_i4)

\* lines 37-131
_sample_from_lut(lutfile, num_sample, reverse_kw, invert_kw, xform, nan_i4) ==
    sampled_from_channels(
        get_rgb_values_of(
            located_channels(color_curves_try_hard_to_locate(lutfile)),
            TRUE, reverse_kw, invert_kw),
        num_sample, xform, nan_i4)

(***************************************************************************)
(* color_curves (src/color_curves.py): coloring the objects of a plot      *)
(***************************************************************************)
\* the outcome of a helper: an exception, or the value it returns
Found(val) == [err |-> "none", at |-> "", val |-> val]
NotThere(exc, where) == [err |-> exc, at |-> where, val |-> <<>>]

\* lines 156-182: the current window, frame and plot.  Line 164 formats
\* its message with a name that is not defined in the function.
_get_current_window_frame_plot(c) ==
    IF c.current = NoCurrent
    THEN NotThere("NameError", "_get_current_window_frame_plot")
    ELSE IF Len(c.current.plt) = 0
    THEN NotThere("RuntimeError", "No plots")
    ELSE IF Len(c.current.plt) > 1
    THEN NotThere("RuntimeError", "Only 1 plot can be current")
    ELSE Found(<<c.current.win[1], c.current.frm[1], c.current.plt[1]>>)

\* lines 186-231: every object line with the window, frame and plot above
\* it.  Line 216 formats its message as line 164 does.
_get_flat_info(c) ==
    IF c.current = NoCurrent THEN NotThere("NameError", "_get_flat_info")
    ELSE Found([k \in 1..Len(c.objs) |->
                   [at |-> <<c.objs[k].win, c.objs[k].frm, c.objs[k].plt>>,
                    type |-> c.objs[k].type, id |-> c.objs[k].id]])

\* lines 134-153, on lines "<type> [<id>]"
_find_names_in(ii, name) ==
    [k \in 1..Len(SelectSeq(ii, LAMBDA x : x.type = name)) |->
        SelectSeq(ii, LAMBDA x : x.type = name)[k].id]

\* lines 244-247
objects_of_type_at(crnt_cfg, flat_info, plot_object) ==
    _find_names_in(SelectSeq(flat_info, LAMBDA x : x.at = crnt_cfg),
                   plot_object)

\* lines 234-247
_get_all_object_type_in_current_plot(c, plot_object) ==
    IF _get_current_window_frame_plot(c).err # "none"
    THEN _get_current_window_frame_plot(c)
    ELSE IF _get_flat_info(c).err # "none" THEN _get_flat_info(c)
    ELSE Found(objects_of_type_at(_get_current_window_frame_plot(c).val,
                                  _get_flat_info(c).val, plot_object))

\* the outcome of _color_object: the exception if any, the application
\* afterwards, the objects found and the colors sampled for them
Colored(c, curves, sample) ==
    [err |-> "none", at |-> "", chips |-> c, curves |-> curves,
     colors |-> sample.val, idx |-> sample.idx]
NotColored(exc, where, c, curves) ==
    [err |-> exc, at |-> where, chips |-> c, curves |-> curves,
     colors |-> <<>>, idx |-> <<>>]

\* lines 265-266: zip(curves, colors[skip:]) from its i-th pair on
RECURSIVE set_each(_, _, _, _, _, _)
set_each(c, setter, curves, colors, skip, i) ==
    IF i > Len(curves) \/ skip + i > Len(colors) THEN c
    ELSE set_each(set_color(c, setter, curves[i], colors[skip + i]), setter,
                  curves, colors, skip, i + 1)

\* (variant: the setters are called without an undo block)
colored_with_no_block(c, sample, curves, skip, setter) ==
    IF sample.err # "none" THEN NotColored(sample.err, sample.at, c, curves)
    ELSE Colored(set_each(c, setter, curves, sample.val, skip, 1), curves,
                 sample)

\* lines 262-267, given the colors sampled
colored_with(c, sample, curves, skip, setter) ==
    IF sample.err # "none" THEN NotColored(sample.err, sample.at, c, curves)
    ELSE Colored(close_undo_block(
                     set_each(open_undo_block(c), setter, curves, sample.val,
                              skip, 1)),
                 curves, sample)

\* lines 258-267, given the objects found
colored_objects(c, found, lutfile, reverse_kw, invert_kw, skip, rskip, plot_object, setter, xform, nan_i4) ==
    IF found.err # "none" THEN NotColored(found.err, found.at, c, <<>>)
    ELSE IF Len(found.val) = 0
    THEN NotColored("RuntimeError", "No objects found in the current plot",
                    c, <<>>)
    ELSE colored_with(c,
                      _sample_from_lut(lutfile, Len(found.val) + skip + rskip,
                                       reverse_kw, invert_kw, xform, nan_i4),
                      found.val, skip, setter)

\* lines 252-268; the trace starts anew with every call
_color_object(c, lutfile, reverse_kw, invert_kw, skip, rskip, plot_object, setter, xform, nan_i4) ==
    colored_objects([c EXCEPT !.trace = <<>>],
                    _get_all_object_type_in_current_plot(c, plot_object),
                    lutfile, reverse_kw, invert_kw, skip, rskip, plot_object,
                    setter, xform, nan_i4)

\* lines 271-596: the five functions and what each hands to _color_object
ColorFunctions ==
    [color_curves |-> [plot_object |-> "Curve", setter |-> "set_curve"],
     color_histograms |->
         [plot_object |-> "Histogram", setter |-> "set_histogram"],
     color_regions |-> [plot_object |-> "Region", setter |-> "set_region"],
     color_points |-> [plot_object |-> "Point", setter |-> "set_point"],
     color_lines |-> [plot_object |-> "Line", setter |-> "set_line"]]

(***************************************************************************)
(* BoxWhiskerPlot.colorize (src/lutbox_whisker.py)                         *)
(***************************************************************************)
\* A plotted BoxWhiskerPlot: sizes[g] is len(y0) of grid cell g (0 when y0
\* is None), grid_regions[g] the number of regions plot() drew for the cell,
\* colors[g] their color.
DefaultColor == "default"

\* lines 496-506: the counts of the cells that hold data
counts(sizes) == {sizes[g] : g \in {k \in 1..Len(sizes) : sizes[k] # 0}}
min(S) == CHOOSE x \in S : \A y \in S : x <= y
max(S) == CHOOSE x \in S : \A y \in S : y <= x

\* lines 521-523: the index of the color of a cell with sz values
color_index_of(ii, num_colors) == IF ii = num_colors THEN ii - 1 ELSE ii
color_index(sz, cmin, cmax, num_colors) ==
    color_index_of(
        Floor(Mul(R(num_colors, 1),
                  IF cmax - cmin > 0 THEN R(sz - cmin, cmax - cmin)
                  ELSE Half)),
        num_colors)

\* LUTPlot._get_color_code (src/lutplot.py lines 261-262)
_get_color_code_raises(hex_codes, ii) == list_item_raises(hex_codes, ii)
_get_color_code(hex_codes, ii) == list_item(hex_codes, ii)

\* the object when colorize raises exc at where
box_raised(b, given, exc, where) ==
    [b EXCEPT !.op = "colorize", !.given = given, !.err = exc, !.at = where]

\* lines 490-494: the attributes set before the cells are counted
box_loaded(b, given, cmap, hex_codes) ==
    [b EXCEPT !.op = "colorize", !.given = given, !.err = "none", !.at = "",
              !.hex_codes = hex_codes, !.num_colors = Len(hex_codes),
              !.cmap = cmap]

\* lines 509-526: min_z, max_z and the color of the regions of every cell
box_colored(b, cmin, cmax) ==
    [b EXCEPT !.min_z = cmin, !.max_z = cmax,
              !.colors = [g \in 1..Len(b.sizes) |->
                  IF b.sizes[g] # 0 /\ b.grid_regions[g] > 0
                  THEN _get_color_code(b.hex_codes,
                           color_index(b.sizes[g], cmin, cmax, b.num_colors))
                  ELSE b.colors[g]]]

\* lines 496-531, for the object b that lines 490-494 left
colorize_cells(b) ==
    IF counts(b.sizes) = {}
    THEN \* min() of an empty list
         /\ box' = [b EXCEPT !.err = "ValueError", !.at = "min"]
         /\ image' = image
    ELSE IF \E g \in 1..Len(b.sizes) :
               /\ b.sizes[g] # 0 /\ b.grid_regions[g] > 0
               /\ _get_color_code_raises(b.hex_codes,
                      color_index(b.sizes[g], min(counts(b.sizes)),
                                  max(counts(b.sizes)), b.num_colors))
    THEN \* only an empty table has no color for a cell: the first cell that
         \* has regions raises, and no region before it was colored
         /\ box' = [b EXCEPT !.err = "IndexError", !.at = "_get_color_code",
                             !.min_z = min(counts(b.sizes)),
                             !.max_z = max(counts(b.sizes))]
         /\ image' = image
    ELSE IF b.image # None /\ \A g \in 1..Len(b.sizes) : b.grid_regions[g] = 0
    THEN \* self.all_regions[0] of an empty list
         /\ box' = [box_colored(b, min(counts(b.sizes)), max(counts(b.sizes)))
                       EXCEPT !.err = "IndexError", !.at = "all_regions"]
         /\ image' = image
    ELSE /\ box' = box_colored(b, min(counts(b.sizes)), max(counts(b.sizes)))
         /\ image' = IF b.image # None THEN b.cmap ELSE image

\* lines 489-494, given the channels get_rgb_values returned
colorize_channels(c, given, cmap) ==
    IF c.err # "none"
    THEN /\ box' = box_raised(box, given, c.err, c.at)
         /\ UNCHANGED <<usercmap, image>>
    ELSE IF get_rgb_hexcodes_raises(c.rr, c.gg, c.bb)
    THEN /\ box' = box_raised(box, given, "ValueError", "hexify")
         /\ UNCHANGED <<usercmap, image>>
    ELSE /\ usercmap' = [usercmap EXCEPT ![cmap] = <<c.rr, c.gg, c.bb>>]
         /\ colorize_cells(box_loaded(box, given, cmap,
                                      get_rgb_hexcodes(c.rr, c.gg, c.bb)))

\* lines 452-531; given says where the caller took filename from
colorize(filename, given, cmap, reverse_kw, invert_kw) ==
    /\ box.grid_regions # <<>>
    /\ IF cmap \notin UserSlots
       THEN /\ box' = box_raised(box, given, "ValueError", "cmap")
            /\ UNCHANGED <<usercmap, image>>
       ELSE colorize_channels(get_rgb_values(filename, reverse_kw, invert_kw),
                              given, cmap)
    /\ UNCHANGED <<files, last, calls, req, probe, globbed, lut, chips,
                   arg, ret>>

(***************************************************************************)
(* LUTPlot (src/lutplot.py)                                                *)
(***************************************************************************)
\* (variant: name+".lut" is tried before the bare name)
RECURSIVE LUTPlot_try_hard_to_locate_lut_first(_, _)
LUTPlot_try_hard_to_locate_lut_first(i, filename) ==
    IF i > Len(tox) THEN NotFound
    ELSE IF read_file_ok(tox[i] \o filename \o ".lut")
    THEN tox[i] \o filename \o ".lut"
    ELSE IF read_file_ok(tox[i] \o filename) THEN tox[i] \o filename
    ELSE LUTPlot_try_hard_to_locate_lut_first(i + 1, filename)

\* lines 196-206: the loop of the static method from its i-th directory on
RECURSIVE LUTPlot_try_hard_to_locate_from(_, _)
LUTPlot_try_hard_to_locate_from(i, filename) ==
    IF i > Len(tox) THEN NotFound
    ELSE IF read_file_ok(tox[i] \o filename) THEN tox[i] \o filename
    ELSE IF read_file_ok(tox[i] \o filename \o ".lut")
    THEN tox[i] \o filename \o ".lut"
    ELSE LUTPlot_try_hard_to_locate_from(i + 1, filename)

\* lines 180-208: the file whose crate is returned, or NotFound for IOError
LUTPlot_try_hard_to_locate(filename) ==
    LUTPlot_try_hard_to_locate_from(1, filename)

\* pychips as LUTPlot uses it.  The window, frame and plot add_curve draws
\* in: the current ones, made if there are none
drawn_in(current) ==
    IF current = NoCurrent THEN CurrentPlot("win1", "frm1", "plot1")
    ELSE IF current.plt = <<>> THEN [current EXCEPT !.plt = <<"plot1">>]
    ELSE current

\* the name of a new curve: its stem and a number
numbered(stems, stem) ==
    stem \o ToString(1 + Cardinality({j \in 1..Len(stems) : stems[j] = stem}))

\* the range of an axis that shows the values a as well
widened(range, a) ==
    IF range = <<>> THEN <<min({a[j] : j \in 1..Len(a)}),
                           max({a[j] : j \in 1..Len(a)})>>
    ELSE <<min({range[1]} \cup {a[j] : j \in 1..Len(a)}),
           max({range[2]} \cup {a[j] : j \in 1..Len(a)})>>

\* a curve is an object that has its points as well
new_curve(current, id, color, xx, yy) ==
    [win |-> current.win[1], frm |-> current.frm[1], plt |-> current.plt[1],
     type |-> "Curve", id |-> id, color |-> color, x |-> xx, y |-> yy]

\* add_curve(xx, yy, "stem=<stem> symbol.color=<color> line.color=<color>")
add_curve(c, xx, yy, stem, color) ==
    changed([c EXCEPT !.trace = Append(@, <<"add_curve", stem>>)],
            [c EXCEPT !.trace = Append(@, <<"add_curve", stem>>),
                      !.current = drawn_in(@),
                      !.objs = Append(@, new_curve(drawn_in(c.current),
                                                   numbered(c.stems, stem),
                                                   color, xx, yy)),
                      !.limits = [x |-> widened(@.x, xx),
                                  y |-> widened(@.y, yy)],
                      !.stems = Append(@, stem)])

delete_curve(c, id) ==
    changed([c EXCEPT !.trace = Append(@, <<"delete_curve", id>>)],
            [c EXCEPT !.trace = Append(@, <<"delete_curve", id>>),
                      !.objs = SelectSeq(@, LAMBDA o :
                                   ~(/\ in_current_plot(c, o)
                                     /\ o.type = "Curve" /\ o.id = id))])

\* set_current_window(win), set_current_frame(frm), set_current_plot(plt)
set_current(c, win, frm, plt) ==
    changed([c EXCEPT !.trace = Append(@, <<"set_current", win, frm, plt>>)],
            [c EXCEPT !.trace = Append(@, <<"set_current", win, frm, plt>>),
                      !.current = CurrentPlot(win, frm, plt)])

\* the curves of the current plot, in the order they were made in
current_curves(c) ==
    SelectSeq(c.objs, LAMBDA o : in_current_plot(c, o) /\ o.type = "Curve")

\* lines 346-356: the names the lines of info_current() that start with
\* name give; the last of them is returned
current_names(c, name) ==
    CASE name = "Window" -> c.current.win
      [] name = "Frame" -> c.current.frm
      [] name = "Plot" -> c.current.plt
      [] name = "Curve" ->
            IF current_curves(c) = <<>> THEN <<>>
            ELSE <<current_curves(c)[Len(current_curves(c))].id>>
      [] name = "X Axis" -> IF c.limits.x = <<>> THEN <<>> ELSE <<"ax1">>
      [] name = "Y Axis" -> IF c.limits.y = <<>> THEN <<>> ELSE <<"ay1">>

\* info_current() is None without a window: None.split raises
\* AttributeError; ff[-1] of an empty list raises IndexError
_get_current_object_name_raises(c, name) ==
    IF c.current = NoCurrent THEN "AttributeError"
    ELSE IF current_names(c, name) = <<>> THEN "IndexError"
    ELSE "none"

_get_current_object_name(c, name) ==
    current_names(c, name)[Len(current_names(c, name))]

\* Python values of the attributes of the object
PyNum(n) == [type |-> "number", val |-> <<n>>]
PyList(l) == [type |-> "list", val |-> l]

\* `if v:` for None and for a list
truthy(v) == v.type # "NoneType" /\ v.val # <<>>

\* the outcome of a method: the exception if any, and the object, the
\* application and the colormap slots it leaves
Method(exc, where, self, c, slots) ==
    [err |-> exc, at |-> where, self |-> self, chips |-> c,
     usercmap |-> slots]

\* lines 211-215
_create_hex_codes(rr, gg, bb) ==
    [j \in 1..Len(rr) |-> color_by_value(rr[j], gg[j], bb[j])]

\* lines 272-289: the channels returned; color_by_value raises ValueError
\* for a value outside 0..1
_get_rgb(filename, reverse_kw, invert_kw) ==
    LET c == get_rgb_values_of(
                 located_channels(LUTPlot_try_hard_to_locate(filename)),
                 TRUE, reverse_kw, invert_kw)
    IN  IF c.err # "none" THEN c
        ELSE IF \E j \in 1..Len(c.rr) :
                    color_by_value_raises(c.rr[j], c.gg[j], c.bb[j])
        THEN NoChannels("ValueError", "hexify")
        ELSE c

\* lines 255-259, given the channels _get_rgb returned
initialised(c, slots, rgb, filename, cmap) ==
    IF rgb.err # "none" THEN Method(rgb.err, rgb.at, NoLUTPlot, c, slots)
    ELSE Method("none", "",
                [NoLUTPlot EXCEPT
                    !.made = TRUE,
                    !.hex_codes = _create_hex_codes(rgb.rr, rgb.gg, rgb.bb),
                    !.num_colors = Len(rgb.rr),
                    !.filename = filename,
                    !.cmap = cmap],
                c, [slots EXCEPT ![cmap] = <<rgb.rr, rgb.gg, rgb.bb>>])

\* lines 219-259: LUTPlot(filename, cmap, reverse, invert)
__init__(c, slots, filename, cmap, reverse_kw, invert_kw) ==
    IF cmap \notin UserSlots
    THEN Method("ValueError", "Invalid color map selected", NoLUTPlot, c,
                slots)
    ELSE initialised(c, slots, _get_rgb(filename, reverse_kw, invert_kw),
                     filename, cmap)

\* lines 359-366
_save_limits(self, c) ==
    [self EXCEPT
        !.axis_names = PyList(<<_get_current_object_name(c, "X Axis"),
                                _get_current_object_name(c, "Y Axis")>>),
        !.rx = PyList(c.limits.x), !.ry = PyList(c.limits.y)]

\* lines 375-381: an exception, or the names
_get_window_info_raises(c) ==
    IF _get_current_object_name_raises(c, "Window") # "none"
    THEN _get_current_object_name_raises(c, "Window")
    ELSE IF _get_current_object_name_raises(c, "Frame") # "none"
    THEN _get_current_object_name_raises(c, "Frame")
    ELSE _get_current_object_name_raises(c, "Plot")

_get_window_info(c) ==
    <<_get_current_object_name(c, "Window"),
      _get_current_object_name(c, "Frame"),
      _get_current_object_name(c, "Plot")>>

\* lines 440-450: the lower and the upper edge of every bin, zz holding
\* natural numbers and nn being 2 or more
even_tlo(min_z, max_z, nn) ==
    [i \in 1..nn |->
        fl_add(double(min_z), fl_mul(fl_div(max_z - min_z, nn - 1), i - 1))]

even_thi(tlo, dt) ==
    [i \in 1..Len(tlo) |-> IF i = Len(tlo) THEN Inf ELSE fl_add(tlo[i], dt)]

\* lines 461-464: the edges a zgrid gives
zgrid_tlo(zgrid) == [i \in 1..Len(zgrid) |-> double(zgrid[i][1].val[1])]
zgrid_thi(zgrid) == [i \in 1..Len(zgrid) |-> double(zgrid[i][2].val[1])]

\* line 481: the places of the values of the bin, np.where
where(zz, lo, hi) ==
    SelectSeq([j \in 1..Len(zz) |-> j],
              LAMBDA j : int_ge(zz[j], lo) /\ int_lt(zz[j], hi))

taken(a, jj) == [k \in 1..Len(jj) |-> a[jj[k]]]

\* lines 479-491: the loop from color ii on (counted from 0); the curves
\* made and the application afterwards
RECURSIVE plotted_bins(_, _, _, _, _, _, _, _, _, _)
plotted_bins(self, c, xx, yy, zz, name, tlo, thi, all_curves, ii) ==
    IF ii >= self.num_colors
    THEN [all_curves |-> all_curves, chips |-> c]
    ELSE IF where(zz, tlo[ii + 1], thi[ii + 1]) = <<>>
    THEN plotted_bins(self, c, xx, yy, zz, name, tlo, thi,
                      Append(all_curves, None), ii + 1)
    ELSE LET d == add_curve(c, taken(xx, where(zz, tlo[ii + 1], thi[ii + 1])),
                            taken(yy, where(zz, tlo[ii + 1], thi[ii + 1])),
                            name, _get_color_code(self.hex_codes, ii))
         IN  plotted_bins(self, d, xx, yy, zz, name, tlo, thi,
                          Append(all_curves,
                                 _get_current_object_name(d, "Curve")),
                          ii + 1)

\* lines 490-500, given what the loop made
plot_finished(self, made, delname, slots) ==
    Method("none", "",
           [self EXCEPT !.curves = PyList(made.all_curves),
                        !.order = PyNum(1)],
           close_undo_block(delete_curve(made.chips, delname)), slots)

\* lines 471-500, c being the application after add_curve(... stem=delme)
plot_curves(self, c, xx, yy, zz, name, tlo, thi, slots) ==
    plot_finished(
        [_save_limits(self, c) EXCEPT
            !.lut_win = PyStr(_get_window_info(c)[1]),
            !.lut_frame = PyStr(_get_window_info(c)[2]),
            !.lut_plot = PyStr(_get_window_info(c)[3])],
        plotted_bins(self, c, xx, yy, zz, name, tlo, thi, <<>>, 0),
        _get_current_object_name(c, "Curve"), slots)

\* lines 468-500, given the edges of the bins
plot_binned(self, c, xx, yy, zz, name, tlo, thi, slots) ==
    plot_curves(self, add_curve(c, xx, yy, "delme", DefaultObjectColor), xx,
                yy, zz, name, tlo, thi, slots)

\* lines 441-450: no zgrid.  min() of an empty zz raises ValueError, one
\* color divides by zero, no color leaves thi[-1] without an element
plot_even(self, c, xx, yy, zz, name, slots) ==
    IF zz = <<>> THEN Method("ValueError", "min", self, c, slots)
    ELSE IF self.num_colors = 1
    THEN Method("ZeroDivisionError", "dt",
                [self EXCEPT
                    !.min_z = PyNum(min({zz[j] : j \in 1..Len(zz)})),
                    !.max_z = PyNum(max({zz[j] : j \in 1..Len(zz)}))],
                c, slots)
    ELSE IF self.num_colors = 0
    THEN Method("IndexError", "thi[-1]",
                [self EXCEPT
                    !.min_z = PyNum(min({zz[j] : j \in 1..Len(zz)})),
                    !.max_z = PyNum(max({zz[j] : j \in 1..Len(zz)}))],
                c, slots)
    ELSE plot_binned(
             [self EXCEPT
                 !.min_z = PyNum(min({zz[j] : j \in 1..Len(zz)})),
                 !.max_z = PyNum(max({zz[j] : j \in 1..Len(zz)}))],
             c, xx, yy, zz, name,
             even_tlo(min({zz[j] : j \in 1..Len(zz)}),
                      max({zz[j] : j \in 1..Len(zz)}), self.num_colors),
             even_thi(even_tlo(min({zz[j] : j \in 1..Len(zz)}),
                               max({zz[j] : j \in 1..Len(zz)}),
                               self.num_colors),
                      fl_div(max({zz[j] : j \in 1..Len(zz)})
                                 - min({zz[j] : j \in 1..Len(zz)}),
                             self.num_colors - 1)),
             slots)

\* lines 452-466: the zgrid is checked, and the block is closed before
\* each ValueError
plot_zgrid(self, c, xx, yy, zz, name, zgrid, slots) ==
    IF Len(zgrid) # self.num_colors
    THEN Method("ValueError", "zgrid must have same number of elements",
                self, close_undo_block(c), slots)
    ELSE IF \E i \in 1..Len(zgrid) : Len(zgrid[i]) # 2
    THEN Method("ValueError", "zgrid must have 2 elements in each slot",
                self, close_undo_block(c), slots)
    ELSE IF \E i \in 1..Len(zgrid) : \E k \in 1..2 :
                zgrid[i][k].type # "number"
    THEN Method("ValueError", "All elements of zgrid must be numbers", self,
                close_undo_block(c), slots)
    ELSE plot_binned(
             [self EXCEPT
                 !.min_z = PyNum(zgrid[1][1].val[1]),
                 !.max_z = PyNum(zgrid[Len(zgrid)][2].val[1])],
             c, xx, yy, zz, name, zgrid_tlo(zgrid), zgrid_thi(zgrid), slots)

\* (variant: a second series is not refused)
plot_unguarded(self, c, xx, yy, zz, name, zgrid, slots) ==
    IF ~truthy(zgrid)
    THEN plot_even(self, open_undo_block(c), xx, yy, zz, name, slots)
    ELSE plot_zgrid(self, open_undo_block(c), xx, yy, zz, name, zgrid.val,
                    slots)

\* lines 400-500: lut.plot(xx, yy, zz, name, zgrid)
plot(self, c, xx, yy, zz, name, zgrid, slots) ==
    IF truthy(self.curves)
    THEN Method("RuntimeError",
                "The same object cannot be used to plot multiple series",
                self, c, slots)
    ELSE IF ~truthy(zgrid)
    THEN plot_even(self, open_undo_block(c), xx, yy, zz, name, slots)
    ELSE plot_zgrid(self, open_undo_block(c), xx, yy, zz, name, zgrid.val,
                    slots)

\* lines 383-389, for an object that has been plotted
_set_lut_window(self, c) ==
    set_current(c, self.lut_win.val[1], self.lut_frame.val[1],
                self.lut_plot.val[1])

\* lines 392-397
_restore_window(self, c) ==
    set_current(c, self.old_win.val[1], self.old_frame.val[1],
                self.old_plot.val[1])

\* line 386
with_old_window(self, c) ==
    [self EXCEPT !.old_win = PyStr(_get_window_info(c)[1]),
                 !.old_frame = PyStr(_get_window_info(c)[2]),
                 !.old_plot = PyStr(_get_window_info(c)[3])]

\* lines 336-340: the loop from color ii on (counted from 0)
RECURSIVE replaced_colors(_, _, _)
replaced_colors(self, c, ii) ==
    IF ii >= self.num_colors THEN c
    ELSE IF self.curves.val[ii + 1] = None
    THEN replaced_colors(self, c, ii + 1)
    ELSE replaced_colors(self,
                         set_color(c, "set_curve", self.curves.val[ii + 1],
                                   _get_color_code(self.hex_codes, ii)),
                         ii + 1)

\* lines 323-343, given the channels of the new table; self holds its hex
\* codes already
replace_cmap_with(self, c, rgb, filename, slots) ==
    IF Len(rgb.rr) # self.num_colors
    THEN Method("IOError",
                "New lookup table must have same number of colors",
                self, close_undo_block(_restore_window(self, c)), slots)
    ELSE Method("none", "", [self EXCEPT !.filename = filename],
                close_undo_block(
                    _restore_window(self, replaced_colors(self, c, 0))),
                [slots EXCEPT ![self.cmap] = <<rgb.rr, rgb.gg, rgb.bb>>])

\* lines 319-343, in the window of the series
replace_cmap_plotted(self, c, rgb, filename, slots) ==
    IF Len(self.hex_codes) # Len(self.curves.val)
    THEN Method("AssertionError", "len(self.hex_codes) == len(self.curves)",
                self, c, slots)
    ELSE IF rgb.err # "none" THEN Method(rgb.err, rgb.at, self, c, slots)
    ELSE replace_cmap_with(
             [self EXCEPT !.hex_codes =
                              _create_hex_codes(rgb.rr, rgb.gg, rgb.bb)],
             c, rgb, filename, slots)

\* lines 311-343: lut.replace_cmap(filename, reverse, invert).  An object
\* that has not been plotted gives None to set_current_window: none_ok
\* tells whether the application takes it (and leaves the current window
\* alone) or raises
replace_cmap(self, c, filename, reverse_kw, invert_kw, none_ok, slots) ==
    IF _get_window_info_raises(open_undo_block(c)) # "none"
    THEN Method(_get_window_info_raises(open_undo_block(c)),
                "_get_current_object_name", self, open_undo_block(c), slots)
    ELSE IF self.lut_win = PyNone /\ ~none_ok
    THEN Method("pychips error", "set_current_window",
                with_old_window(self, c), open_undo_block(c), slots)
    ELSE IF ~truthy(self.curves)
    THEN Method("RuntimeError",
                "You can only replace a color map after it has been plotted",
                with_old_window(self, c),
                close_undo_block(open_undo_block(c)), slots)
    ELSE replace_cmap_plotted(
             with_old_window(self, c),
             _set_lut_window(self, open_undo_block(c)),
             _get_rgb(filename, reverse_kw, invert_kw), filename, slots)

(***************************************************************************)
(* Specifications                                                          *)
(***************************************************************************)
MaxCalls == 1           \* lut_colors calls in one session
MaxRampAnchors == 3     \* longest list of color names of a ramp request
MaxRampColors == 5      \* largest num_colors of a ramp request

Seqs(S, lo, hi) == UNION {[1..n -> S] : n \in lo..hi}

\* A session: any arguments, valid or not, several calls, images coming
\* into existence in between.
CallColors == {<<>>, <<"blue">>, <<"red", "blue">>, <<"hot", "blue">>,
               <<"nosuch", "blue">>, <<"red", "duo">>}
NumColorsArgs == {0, 1, 2, 3}
CmapArgs == {NoArg, "usercmap2", "usercmap9"}
OutfileArgs == {None} \cup FileNames
ColorsysArgs == {"rgb", "hsv", "xyz"}

call_lut_colors ==
    \E colors \in CallColors, cmap \in CmapArgs,
       num_colors \in NumColorsArgs, outfile \in OutfileArgs,
       colorsys \in ColorsysArgs :
        /\ calls < MaxCalls
        /\ lut_colors(colors, cmap, num_colors, outfile, colorsys)
        /\ UNCHANGED <<req, probe, aside>>

Next == call_lut_colors \/ add_image

Spec == Init /\ [][Next]_vars

\* One ramp request with valid arguments, drawn in the initial state: at least two colors of colors.par
\* with three channels in [0,1], a supported color system, num_colors >= 2.
RampNames == {"black", "white", "red", "blue", "olive", "pink", "hue95",
              "hue05"}

RampRequests ==
    {[colors |-> c, num_colors |-> n, colorsys |-> s] :
        c \in Seqs(RampNames, 2, MaxRampAnchors), n \in 2..MaxRampColors,
        s \in ColorSystems}

InitRamp == Start /\ Uncalled /\ req \in RampRequests

\* the request is made: the ramp goes to the default slot and to ramp.lut
ramp_request ==
    /\ calls = 0
    /\ lut_colors(req.colors, NoArg, req.num_colors, "ramp.lut", req.colorsys)
    /\ UNCHANGED <<req, probe, aside>>

NextRamp == ramp_request

SpecRamp == InitRamp /\ [][NextRamp]_vars

\* The same request made again and again, with other calls (other inputs,
\* failing calls, other slots) in between.
MaxProbeCalls == 4      \* lut_colors calls in one such session

ProbeRequests ==
    {[colors |-> c, num_colors |-> n, colorsys |-> s] :
        c \in {<<"red", "blue">>, <<"hue95", "hue05", "white">>},
        n \in {2, 3}, s \in ColorSystems}

OtherColors == {<<"red", "blue">>, <<"olive", "pink", "blue">>,
                <<"nosuch", "blue">>}
ProbeCmaps == {NoArg, "usercmap2"}

InitTwice == Start /\ Uncalled /\ req \in ProbeRequests

\* the request req is made; the first ramp it produces is kept for comparison
repeat_request ==
    \E cmap \in ProbeCmaps :
        /\ calls < MaxProbeCalls
        /\ lut_colors(req.colors, cmap, req.num_colors, None, req.colorsys)
        /\ probe' = IF probe.ramp = NoTable /\ last'.err = "none"
                    THEN [ramp |-> channels(last'.rgbs_i), between |-> {}]
                    ELSE probe
        /\ UNCHANGED <<req, aside>>

\* a call with another request, valid or not
other_request ==
    \E colors \in OtherColors, cmap \in ProbeCmaps, num_colors \in {3},
       colorsys \in {"hsv", "xyz"} :
        /\ calls < MaxProbeCalls
        /\ <<colors, num_colors, colorsys>> #
              <<req.colors, req.num_colors, req.colorsys>>
        /\ lut_colors(colors, cmap, num_colors, None, colorsys)
        /\ probe' = IF probe.ramp = NoTable THEN probe
                    ELSE [probe EXCEPT !.between = @ \cup {last'.err}]
        /\ UNCHANGED <<req, aside>>

NextTwice == repeat_request \/ other_request

SpecTwice == InitTwice /\ [][NextTwice]_vars

\* A plotted BoxWhiskerPlot being colored with tables that lut_colors built
\* (src/_test/tst.py), with and without a colorbar.
MaxTableCalls == 1      \* lut_colors calls in one such session

Boxes == {<<<<3, 1, 2>>, <<2, 1, 2>>>>, <<<<0, 4>>, <<0, 2>>>>,
          <<<<2, 2>>, <<1, 0>>>>}

PlottedBoxes ==
    {[NoBox EXCEPT !.sizes = b[1], !.grid_regions = b[2],
                   !.colors = [g \in 1..Len(b[1]) |-> DefaultColor],
                   !.image = im] :
        b \in Boxes, im \in {None, "image1"}}

\* b.plot(), and for some objects b.add_colorbar(), have been called:
\* add_colorbar adds an image with the colormap chips_usercmap1
InitColorize ==
    /\ usercmap = [s \in UserSlots |-> NoTable]
    /\ files = [f \in FileNames |-> NoFile]
    /\ last = NoCall
    /\ calls = 0
    /\ req = NoRequest
    /\ probe = NoProbe
    /\ globbed = <<>>
    /\ box \in PlottedBoxes
    /\ lut = NoLUTPlot
    /\ chips = NoChips
    /\ arg = NoArgs
    /\ ret = NoReturn
    /\ image = IF box.image = None THEN NoImage ELSE chips_usercmap1

table_request ==
    \E colors \in {<<"pink", "blue">>}, cmap \in ProbeCmaps,
       num_colors \in {2, 3}, colorsys \in {"rgb", "hsv"} :
        /\ calls < MaxTableCalls
        /\ lut_colors(colors, cmap, num_colors, None, colorsys)
        /\ UNCHANGED <<req, probe, aside>>

\* b.colorize(lut_colors(...)): the value the call returned is passed on
colorize_returned ==
    /\ last.op = "lut_colors" /\ last.err = "none"
    /\ colorize(last.ret, "returned", chips_usercmap1, FALSE, FALSE)

\* b.colorize((r, g, b)) with the lists a slot was loaded with
colorize_loaded ==
    \E slot \in UserSlots, cmap \in {chips_usercmap3},
       reverse_kw \in BOOLEAN :
        /\ usercmap[slot] # NoTable
        /\ colorize(PyTuple(usercmap[slot]), "loaded", cmap, reverse_kw,
                    FALSE)

NextColorize == table_request \/ colorize_returned \/ colorize_loaded

SpecColorize == InitColorize /\ [][NextColorize]_vars

\* hexify and color_by_value applied to one color, drawn in the initial
\* state: red from a fine grid around [0,1], green and blue from a few values
HexSteps == 512         \* red is a multiple of 1/HexSteps

HexValues == {R(n, HexSteps) : n \in (-3)..(HexSteps + 3)} \cup {NaN}
FewValues == {Zero, R(1, 3), Half, R(255, 256), One, R(3, 2)}

\* the variables of the lut_colors session and of the plot objects
session ==
    <<usercmap, image, files, last, calls, req, probe, globbed, box, lut,
      chips>>

InitHexify ==
    /\ Start
    /\ req = NoRequest
    /\ arg \in {[op |-> "color", red |-> r, green |-> g, blue |-> b] :
                   r \in HexValues, g \in FewValues, b \in FewValues}
    /\ ret = NoReturn

Returns(op, val) == [op |-> op, err |-> "none", val |-> val]
Raises(op, exc) == [op |-> op, err |-> exc, val |-> <<>>]

call_hexify ==
    /\ arg.op = "color" /\ ret.op = "none"
    /\ ret' = IF hexify_raises(arg.red) THEN Raises("hexify", "ValueError")
              ELSE Returns("hexify", hexify(arg.red))
    /\ UNCHANGED <<session, arg>>

call_color_by_value ==
    /\ arg.op = "color" /\ ret.op = "none"
    /\ ret' = IF color_by_value_raises(arg.red, arg.green, arg.blue)
              THEN Raises("color_by_value", "ValueError")
              ELSE Returns("color_by_value",
                           color_by_value(arg.red, arg.green, arg.blue))
    /\ UNCHANGED <<session, arg>>

NextHexify == call_hexify \/ call_color_by_value

SpecHexify == InitHexify /\ [][NextHexify]_vars

\* _sample_from_lut applied to one table and one number of samples, drawn in
\* the initial state: the table is the file gray.lut of the working
\* directory, a ramp of shades of gray
MaxTable == 16          \* most colors in the table
MaxSamples == 12        \* most samples taken from it

GrayTable(nclrs) ==
    [j \in 1..nclrs |->
        IF nclrs = 1 THEN <<Zero, Zero, Zero>>
        ELSE <<R(j - 1, nclrs - 1), R(j - 1, nclrs - 1), R(j - 1, nclrs - 1)>>]

InitSample ==
    /\ usercmap = [s \in UserSlots |-> NoTable]
    /\ image = NoImage
    /\ \E nclrs \in 1..MaxTable :
          files = [f \in {"gray.lut"} |->
                      [exists |-> TRUE, rows |-> GrayTable(nclrs)]]
    /\ last = NoCall
    /\ calls = 0
    /\ req = NoRequest
    /\ probe = NoProbe
    /\ globbed = <<>>
    /\ box = NoBox
    /\ lut = NoLUTPlot
    /\ chips = NoChips
    /\ arg \in {[op |-> "sample", lutfile |-> "gray", num_sample |-> n,
                 reverse |-> r, xform |-> x] :
                   n \in 1..MaxSamples, r \in BOOLEAN,
                   x \in {"_linear", "square"}}
    /\ ret = NoReturn

\* what the caller of op gets from the outcome r of the function
outcome(op, r) ==
    IF r.err = "none" THEN Returns(op, r) ELSE Raises(op, r.err)

call_sample_from_lut ==
    \E nan_i4 \in NanAsInt :
        /\ arg.op = "sample" /\ ret.op = "none"
        /\ ret' = outcome("_sample_from_lut",
                          _sample_from_lut(arg.lutfile, arg.num_sample,
                                           arg.reverse, FALSE, arg.xform,
                                           nan_i4))
        /\ UNCHANGED <<session, arg>>

NextSample == call_sample_from_lut

SpecSample == InitSample /\ [][NextSample]_vars

\* the tables of the color_* calls, files of the working directory:
\* gray.lut, 16 shades of gray, and two.lut, black and white
GrayFiles ==
    [f \in {"gray.lut", "two.lut"} |->
        [exists |-> TRUE,
         rows |-> IF f = "gray.lut" THEN GrayTable(16) ELSE GrayTable(2)]]

\* the objects of the sessions: M objects of one type in one plot
ObjectPrefix ==
    [Curve |-> "crv", Histogram |-> "hist", Region |-> "reg",
     Point |-> "pnt", Line |-> "line"]

ObjectsOf(type, M) ==
    [k \in 1..M |->
        Object("win1", "frm1", "plot1", type,
               ObjectPrefix[type] \o ToString(k))]

Plotted(objs, current) ==
    [NoChips EXCEPT !.objs = objs, !.current = current]

ColorArgs(fn, lutfile, reverse_kw, skip, rskip) ==
    [op |-> "color_object", fn |-> fn, lutfile |-> lutfile,
     reverse |-> reverse_kw, skip |-> skip, rskip |-> rskip]

\* what the caller and the application have after the call: before are
\* the objects as the call found them
color_done(fn, r) ==
    /\ chips' = r.chips
    /\ ret' = [op |-> fn, err |-> r.err,
               val |-> [at |-> r.at, curves |-> r.curves,
                        colors |-> r.colors, idx |-> r.idx,
                        before |-> chips.objs]]

\* color_curves(lutfile, ...), color_histograms(lutfile, ...), ...
color_call(fn, lutfile, reverse_kw, skip, rskip, nan_i4) ==
    color_done(fn, _color_object(chips, lutfile, reverse_kw, FALSE, skip,
                                 rskip, ColorFunctions[fn].plot_object,
                                 ColorFunctions[fn].setter, "_linear",
                                 nan_i4))

\* one color_* call on a plot of M objects of its type; the function, M and
\* the skips are drawn in the initial state
MaxObjects == 11        \* most objects in the plot
MaxSkip == 2            \* largest skip and rskip

InitSkip ==
    /\ usercmap = [s \in UserSlots |-> NoTable]
    /\ image = NoImage
    /\ files = GrayFiles
    /\ last = NoCall
    /\ calls = 0
    /\ req = NoRequest
    /\ probe = NoProbe
    /\ globbed = <<>>
    /\ box = NoBox
    /\ lut = NoLUTPlot
    /\ arg \in {ColorArgs(fn, f, r, s, rs) :
                   fn \in DOMAIN ColorFunctions, f \in {"gray", "two"},
                   r \in BOOLEAN,
                   s \in 0..MaxSkip, rs \in 0..MaxSkip}
    /\ \E M \in 1..MaxObjects :
          chips = Plotted(ObjectsOf(ColorFunctions[arg.fn].plot_object, M),
                          CurrentPlot("win1", "frm1", "plot1"))
    /\ ret = NoReturn

call_color_object ==
    \E nan_i4 \in NanAsInt :
        /\ arg.op = "color_object" /\ ret.op = "none"
        /\ color_call(arg.fn, arg.lutfile, arg.reverse, arg.skip, arg.rskip,
                      nan_i4)
        /\ UNCHANGED <<usercmap, image, files, last, calls, req, probe,
                       globbed, box, lut, arg>>

NextSkip == call_color_object

SpecSkip == InitSkip /\ [][NextSkip]_vars

\* a session of color_* calls, undo() and redo() on two windows with
\* several plots and objects of every type
MaxUnits == 2           \* most units on the undo stack

MixedObjects ==
    <<Object("win1", "frm1", "plot1", "Curve", "crv1"),
      Object("win1", "frm1", "plot1", "Histogram", "hist1"),
      Object("win1", "frm1", "plot1", "Curve", "crv2"),
      Object("win1", "frm1", "plot1", "Line", "line1"),
      Object("win1", "frm1", "plot1", "Curve", "crv3"),
      Object("win1", "frm1", "plot2", "Curve", "crv1"),
      Object("win1", "frm1", "plot2", "Point", "pnt1"),
      Object("win1", "frm1", "plot2", "Point", "pnt2"),
      Object("win1", "frm2", "plot1", "Curve", "crv1"),
      Object("win1", "frm2", "plot1", "Region", "reg1"),
      Object("win2", "frm1", "plot1", "Curve", "crv1"),
      Object("win2", "frm1", "plot1", "Curve", "crv2")>>

\* the current plot: one of the four plots, both plots of a frame after
\* set_current_plot("all"), or none in a frame without plots
Currents ==
    {CurrentPlot("win1", "frm1", "plot1"),
     CurrentPlot("win1", "frm1", "plot2"),
     CurrentPlot("win1", "frm2", "plot1"),
     CurrentPlot("win2", "frm1", "plot1"),
     [win |-> <<"win1">>, frm |-> <<"frm1">>, plt |-> <<"plot1", "plot2">>],
     [win |-> <<"win2">>, frm |-> <<"frm2">>, plt |-> <<>>]}

InitColor ==
    /\ usercmap = [s \in UserSlots |-> NoTable]
    /\ image = NoImage
    /\ files = GrayFiles
    /\ last = NoCall
    /\ calls = 0
    /\ req = NoRequest
    /\ probe = NoProbe
    /\ globbed = <<>>
    /\ box = NoBox
    /\ lut = NoLUTPlot
    /\ chips \in {NoChips} \cup {Plotted(MixedObjects, c) : c \in Currents}
    /\ arg = NoArgs
    /\ ret = NoReturn

\* the calls of the session: with the table two.lut, or with a table that
\* is not found
ColorRequests ==
    {ColorArgs(fn, "two", r, s, s) :
        fn \in DOMAIN ColorFunctions, r \in BOOLEAN, s \in 0..1}
    \cup {ColorArgs("color_curves", "nosuch", FALSE, 0, 0)}

color_request ==
    \E a \in ColorRequests, nan_i4 \in NanAsInt :
        /\ Len(chips.done) + Len(chips.undone) < MaxUnits
        /\ arg' = a
        /\ color_call(a.fn, a.lutfile, a.reverse, a.skip, a.rskip, nan_i4)
        /\ UNCHANGED <<usercmap, image, files, last, calls, req, probe,
                       globbed, box, lut>>

\* a color_* call has returned
ColorReturned(r) == r.op \in DOMAIN ColorFunctions /\ r.err = "none"

\* undo() and redo() typed by the user.  of_call: undo() was typed right
\* after a color_* call that returned, redo() right after such an undo();
\* found: the objects as that color_* call found them (undo), as it left
\* them (redo)
undo_request ==
    /\ chips.depth = 0 /\ chips.done # <<>>
    /\ chips' = chips_undo(chips)
    /\ arg' = [op |-> "undo"]
    /\ ret' = [op |-> "undo", err |-> "none",
               val |-> [before |-> chips.objs,
                        of_call |-> ColorReturned(ret),
                        found |-> IF ColorReturned(ret) THEN ret.val.before
                                  ELSE <<>>]]
    /\ UNCHANGED <<usercmap, image, files, last, calls, req, probe, globbed,
                   box, lut>>

redo_request ==
    /\ chips.depth = 0 /\ chips.undone # <<>>
    /\ chips' = chips_redo(chips)
    /\ arg' = [op |-> "redo"]
    /\ ret' = [op |-> "redo", err |-> "none",
               val |-> [before |-> chips.objs,
                        of_call |-> ret.op = "undo" /\ ret.val.of_call,
                        found |-> IF ret.op = "undo" /\ ret.val.of_call
                                  THEN ret.val.before ELSE <<>>]]
    /\ UNCHANGED <<usercmap, image, files, last, calls, req, probe, globbed,
                   box, lut>>

NextColor == color_request \/ undo_request \/ redo_request

SpecColor == InitColor /\ [][NextColor]_vars

\* the three copies of _try_hard_to_locate applied to one name; the name,
\* the sub-directories of $HOME/.ds9/LUT and the files that can be read are
\* drawn in the initial state
MaxReadable == 2        \* most candidates that can be read

LutDirs == {HOME \o "/.ds9/LUT/a/", HOME \o "/.ds9/LUT/b/"}

\* what glob can return: the sub-directories that exist, in any order
Globs ==
    {<<>>} \cup {<<d>> : d \in LutDirs}
    \cup {g \in {<<d, e>> : d \in LutDirs, e \in LutDirs} : g[1] # g[2]}

LutNames == {"red", "red.lut"}

\* the files the search for filename looks at in the directories dirs
LutFilesIn(dirs, filename) ==
    {dirs[i] \o filename : i \in 1..Len(dirs)}
    \cup {dirs[i] \o filename \o ".lut" : i \in 1..Len(dirs)}

TwoColors == [exists |-> TRUE, rows |-> GrayTable(2)]

LocateCopies == {"_utils", "color_curves", "LUTPlot"}

NotLocated == [c \in LocateCopies |-> ""]

InitLocate ==
    /\ usercmap = [s \in UserSlots |-> NoTable]
    /\ image = NoImage
    /\ last = NoCall
    /\ calls = 0
    /\ req = NoRequest
    /\ probe = NoProbe
    /\ box = NoBox
    /\ lut = NoLUTPlot
    /\ chips = NoChips
    /\ globbed \in Globs
    /\ arg \in {[op |-> "locate", filename |-> f] : f \in LutNames}
    /\ \E readable \in SUBSET LutFilesIn(tox, arg.filename) :
          /\ Cardinality(readable) <= MaxReadable
          /\ files = [f \in LutFilesIn(tox, arg.filename) |->
                         IF f \in readable THEN TwoColors ELSE NoFile]
    /\ ret = [op |-> "locate", err |-> "none", val |-> NotLocated]

\* what the copy found is kept with what the others found
located(copy, path) == [ret EXCEPT !.val[copy] = path]

locate_utils ==
    /\ arg.op = "locate" /\ ret.val["_utils"] = ""
    /\ ret' = located("_utils", _try_hard_to_locate(arg.filename))
    /\ UNCHANGED <<session, arg>>

locate_color_curves ==
    /\ arg.op = "locate" /\ ret.val["color_curves"] = ""
    /\ ret' = located("color_curves",
                      color_curves_try_hard_to_locate(arg.filename))
    /\ UNCHANGED <<session, arg>>

locate_LUTPlot ==
    /\ arg.op = "locate" /\ ret.val["LUTPlot"] = ""
    /\ ret' = located("LUTPlot", LUTPlot_try_hard_to_locate(arg.filename))
    /\ UNCHANGED <<session, arg>>

NextLocate == locate_utils \/ locate_color_curves \/ locate_LUTPlot

SpecLocate == InitLocate /\ [][NextLocate]_vars

\* a session with one LUTPlot object: it is made, and plot and
\* replace_cmap are called on it, in a session without a window or in one
\* that shows a curve
MaxMethodCalls == 3     \* most calls of the session

PlotFiles ==
    [f \in {"one.lut", "two.lut", "three.lut"} |->
        [exists |-> TRUE,
         rows |-> GrayTable(IF f = "one.lut" THEN 1
                            ELSE IF f = "two.lut" THEN 2 ELSE 3)]]

PlotSessions ==
    {NoChips,
     [add_curve(NoChips, <<0, 1>>, <<0, 1>>, "crv", DefaultObjectColor)
         EXCEPT !.trace = <<>>]}

\* the z values of the points; x counts the points and y is z
PlotData == {<<>>, <<5>>, <<0, 1, 2>>, <<1, 4, 2, 4>>}

Slot(lo, hi) == <<PyNum(lo), PyNum(hi)>>

Zgrids ==
    {PyNone, PyList(<<>>),
     PyList(<<Slot(0, 2), Slot(2, 9)>>),
     PyList(<<Slot(0, 1), Slot(1, 2), Slot(4, 9)>>),
     PyList(<<<<PyNum(0)>>, Slot(2, 9)>>),
     PyList(<<<<PyNum(0), PyNone>>, Slot(2, 9)>>)}

\* what the caller has after call number n of the session: the outcome,
\* and the object, the application, the colormap slots and the outcome of
\* the call before as the call found them
MethodReturn(op, m, n) ==
    [op |-> op, err |-> m.err,
     val |-> [at |-> m.at, n |-> n, self |-> lut, objs |-> chips.objs,
              current |-> chips.current, depth |-> chips.depth,
              usercmap |-> usercmap,
              prev |-> [op |-> ret.op, err |-> ret.err, at |-> ret.val.at]]]

InitPlot ==
    /\ usercmap = [s \in UserSlots |-> NoTable]
    /\ image = NoImage
    /\ files = PlotFiles
    /\ last = NoCall
    /\ calls = 0
    /\ req = NoRequest
    /\ probe = NoProbe
    /\ globbed = <<>>
    /\ box = NoBox
    /\ lut = NoLUTPlot
    /\ chips \in PlotSessions
    /\ arg = NoArgs
    /\ ret = [op |-> "none", err |-> "none",
              val |-> [at |-> "", n |-> 0, self |-> NoLUTPlot,
                       objs |-> chips.objs, current |-> chips.current,
                       depth |-> 0,
                       usercmap |-> [s \in UserSlots |-> NoTable],
                       prev |-> [op |-> "none", err |-> "none", at |-> ""]]]

\* the call has left the outcome m
method_done(op, m) ==
    /\ lut' = m.self
    /\ chips' = m.chips
    /\ usercmap' = m.usercmap
    /\ ret' = MethodReturn(op, m, ret.val.n + 1)

\* lut = LUTPlot(filename, cmap=cmap, reverse=reverse)
new_LUTPlot ==
    \E filename \in {"one", "two", "three", "nosuch"},
       cmap \in {chips_usercmap1, chips_grayscale}, reverse_kw \in BOOLEAN :
        /\ ~lut.made /\ ret.val.n < MaxMethodCalls
        /\ arg' = [op |-> "LUTPlot", filename |-> filename, cmap |-> cmap,
                   reverse |-> reverse_kw]
        /\ method_done("LUTPlot",
                       __init__([chips EXCEPT !.trace = <<>>], usercmap,
                                filename, cmap, reverse_kw, FALSE))
        /\ UNCHANGED <<image, files, last, calls, req, probe, globbed, box>>

\* lut.plot(xx, yy, zz, zgrid=zgrid); data without a point are plotted
\* with the default grid only
call_plot ==
    \E zz \in PlotData, zgrid \in Zgrids :
        /\ lut.made /\ ret.val.n < MaxMethodCalls
        /\ zz = <<>> => ~truthy(zgrid)
        /\ arg' = [op |-> "plot", zz |-> zz, zgrid |-> zgrid]
        /\ method_done("plot",
                       plot(lut, [chips EXCEPT !.trace = <<>>],
                            [j \in 1..Len(zz) |-> j], zz, zz, "lutpoint",
                            zgrid, usercmap))
        /\ UNCHANGED <<image, files, last, calls, req, probe, globbed, box>>

\* lut.replace_cmap(filename, reverse=reverse)
call_replace_cmap ==
    \E filename \in {"two", "three", "nosuch"}, reverse_kw \in BOOLEAN,
       none_ok \in BOOLEAN :
        /\ lut.made /\ ret.val.n < MaxMethodCalls
        /\ arg' = [op |-> "replace_cmap", filename |-> filename,
                   reverse |-> reverse_kw]
        /\ method_done("replace_cmap",
                       replace_cmap(lut, [chips EXCEPT !.trace = <<>>],
                                    filename, reverse_kw, FALSE, none_ok,
                                    usercmap))
        /\ UNCHANGED <<image, files, last, calls, req, probe, globbed, box>>

NextPlot == new_LUTPlot \/ call_plot \/ call_replace_cmap

SpecPlot == InitPlot /\ [][NextPlot]_vars

\* one series plotted with the default grid in a session without a window:
\* the table gray.lut of 2 or more colors and the z values of the points
\* are drawn in the initial state; x counts the points and y is z
MaxBinColors == 4       \* most colors of the table
MaxZ == 6               \* largest z value
MaxPoints == 2          \* most points of the series

InitBins ==
    /\ usercmap = [s \in UserSlots |-> NoTable]
    /\ image = NoImage
    /\ \E nclrs \in 2..MaxBinColors :
          files = [f \in {"gray.lut"} |->
                      [exists |-> TRUE, rows |-> GrayTable(nclrs)]]
    /\ last = NoCall
    /\ calls = 0
    /\ req = NoRequest
    /\ probe = NoProbe
    /\ globbed = <<>>
    /\ box = NoBox
    /\ lut = NoLUTPlot
    /\ chips = NoChips
    /\ \E n \in 1..MaxPoints : \E zz \in [1..n -> 0..MaxZ] :
          arg = [op |-> "series", zz |-> zz]
    /\ ret = [op |-> "none", err |-> "none",
              val |-> [at |-> "", n |-> 0, self |-> NoLUTPlot,
                       objs |-> <<>>, current |-> NoCurrent, depth |-> 0,
                       usercmap |-> [s \in UserSlots |-> NoTable],
                       prev |-> [op |-> "none", err |-> "none", at |-> ""]]]

\* lut = LUTPlot("gray")
series_LUTPlot ==
    /\ ~lut.made /\ ret.val.n = 0
    /\ method_done("LUTPlot",
                   __init__([chips EXCEPT !.trace = <<>>], usercmap, "gray",
                            chips_usercmap1, FALSE, FALSE))
    /\ UNCHANGED <<image, files, last, calls, req, probe, globbed, box, arg>>

\* lut.plot(xx, yy, zz)
series_plot ==
    /\ lut.made /\ ret.val.n = 1
    /\ method_done("plot",
                   plot(lut, [chips EXCEPT !.trace = <<>>],
                        [j \in 1..Len(arg.zz) |-> j], arg.zz, arg.zz,
                        "lutpoint", PyNone, usercmap))
    /\ UNCHANGED <<image, files, last, calls, req, probe, globbed, box, arg>>

NextBins == series_LUTPlot \/ series_plot

SpecBins == InitBins /\ [][NextBins]_vars


(***************************************************************************)
(* Vocabulary of the properties                                            *)
(***************************************************************************)
InUnit(q) == Le(Zero, q) /\ Le(q, One)
ValidTriple(t) == Len(t) = 3 /\ \A k \in 1..Len(t) : InUnit(t[k])
KnownColor(name) == name \in DOMAIN colors_par
ValidAnchor(name) == KnownColor(name) /\ ValidTriple(colors_par[name])
ValidCmap(c) == c = NoArg \/ c \in DOMAIN trans \/ c \in UserSlots
SlotOf(c) == IF c = NoArg THEN chips_usercmap1
             ELSE IF c \in DOMAIN trans THEN trans[c] ELSE c

Called == last.op = "lut_colors"
Failed == Called /\ last.err # "none"
Returned == Called /\ last.err = "none"

\* the arguments of the most recent call satisfy every precondition
ValidRequest ==
    /\ Called
    /\ Len(last.colors) >= 2
    /\ \A i \in 1..Len(last.colors) : ValidAnchor(last.colors[i])
    /\ last.colorsys \in ColorSystems
    /\ last.num_colors >= 2
    /\ ValidCmap(last.cmap)
    /\ last.outfile \notin Unwritable

\* anchor i of the most recent call, as the RGB triple of colors.par
Anchor(i) == colors_par[last.colors[i]]

\* the anchor interval (1..K-1) that encloses output sample j of N, found
\* with integer arithmetic: i-1 <= (j-1)(K-1)/(N-1) <= i
Enclosing(j, N, K) ==
    IF j = N THEN K - 1 ELSE (((j - 1) * (K - 1)) \div (N - 1)) + 1

\* (N-1) times the distance of sample j from the left end of its interval,
\* in units of the interval's length
Weight(j, N, K) == (j - 1) * (K - 1) - (Enclosing(j, N, K) - 1) * (N - 1)

\* the point dividing a..b in the ratio w : n-w
Between(a, b, w, n) ==
    Div(Add(Mul(R(n - w, 1), a), Mul(R(w, 1), b)), R(n, 1))

Interpolated == <<last.hh_i, last.ss_i, last.vv_i>>

(***************************************************************************)
(* C1: for every valid request (two or more valid anchors, a supported     *)
(* color system, num_colors N >= 2) the call returns and the red, green    *)
(* and blue lists given to load_colormap, and the rows written to outfile, *)
(* each have exactly N entries.                                            *)
(***************************************************************************)
RampHasNEntries ==
    ValidRequest =>
        /\ Returned
        /\ Len(usercmap[SlotOf(last.cmap)]) = 3
        /\ \A k \in 1..3 :
              Len(usercmap[SlotOf(last.cmap)][k]) = last.num_colors
        /\ last.outfile # None =>
              /\ files[last.outfile].exists
              /\ Len(files[last.outfile].rows) = last.num_colors

RampHasNEntriesWitness ==
    /\ ValidRequest
    /\ last.num_colors = 4
    /\ Len(last.colors) = 3
    /\ last.colorsys = "hls"
    /\ Len(usercmap[chips_usercmap1][1]) = 4
    /\ Len(files["ramp.lut"].rows) = 4

(***************************************************************************)
(* C2: in HSV and HLS the hue of every output sample lies on the shorter   *)
(* arc between the two anchors enclosing its position: if the two hues     *)
(* differ by more than 0.5, 1.0 is added to the smaller one, the sample is *)
(* the linear interpolation of the pair and is reduced modulo 1 into       *)
(* [0,1).  Between hue 0.95 and hue 0.05 with N = 3 the middle hue is 0.   *)
(***************************************************************************)
AnchorHue(i) == last.hsvs[i][1]

\* the hue a with 1.0 added when it is the smaller of a far-apart pair
Lifted(a, b) ==
    IF Lt(a, b) /\ Lt(Half, Sub(b, a)) THEN Add(a, One) ELSE a

ShortArcHue(j, N, K) ==
    Mod1(Between(Lifted(AnchorHue(Enclosing(j, N, K)),
                        AnchorHue(Enclosing(j, N, K) + 1)),
                 Lifted(AnchorHue(Enclosing(j, N, K) + 1),
                        AnchorHue(Enclosing(j, N, K))),
                 Weight(j, N, K), N - 1))

HueOnShorterArc ==
    (ValidRequest /\ last.colorsys \in {"hsv", "hls"}) =>
        /\ Len(last.hh_i) = last.num_colors
        /\ \A j \in 1..Len(last.hh_i) :
              /\ last.hh_i[j] =
                    ShortArcHue(j, last.num_colors, Len(last.colors))
              /\ Le(Zero, last.hh_i[j]) /\ Lt(last.hh_i[j], One)
        /\ (last.colors = <<"hue95", "hue05">> /\ last.num_colors = 3) =>
              last.hh_i[2] = Zero

HueOnShorterArcWitness ==
    /\ Returned
    /\ last.colors = <<"hue95", "hue05">>
    /\ last.colorsys = "hsv"
    /\ last.num_colors = 3
    /\ AnchorHue(1) = R(19, 20)
    /\ AnchorHue(2) = R(1, 20)
    /\ last.hh_i[2] = Zero

(***************************************************************************)
(* C3: endpoint fidelity.  For every valid request the first ramp entry is *)
(* the first anchor and the last ramp entry (index N-1) is the last        *)
(* anchor, after the conversion into the working color space and back.     *)
(***************************************************************************)
EndpointFidelity ==
    ValidRequest =>
        /\ Len(last.rgbs_i) = last.num_colors
        /\ last.rgbs_i[1] = Anchor(1)
        /\ last.rgbs_i[last.num_colors] = Anchor(Len(last.colors))
        /\ usercmap[SlotOf(last.cmap)] = channels(last.rgbs_i)

EndpointFidelityWitness ==
    /\ ValidRequest
    /\ last.colors = <<"pink", "white", "olive">>
    /\ last.colorsys = "hls"
    /\ last.num_colors = 2
    /\ last.rgbs_i = <<colors_par["pink"], colors_par["olive"]>>

(***************************************************************************)
(* C4: every non-cyclic channel (all three in RGB; the second and third in *)
(* HSV and HLS) of output sample j is the piecewise-linear interpolation,  *)
(* at position j/(N-1), of the anchors' channel values placed at i/(K-1).  *)
(* From black to white in RGB with N = 5 the ramp is 0, 0.25, 0.5, 0.75, 1 *)
(* in every channel.                                                       *)
(***************************************************************************)
LinearChannels == IF last.colorsys = "rgb" THEN {1, 2, 3} ELSE {2, 3}

PiecewiseLinear(c, j, N, K) ==
    Between(last.hsvs[Enclosing(j, N, K)][c],
            last.hsvs[Enclosing(j, N, K) + 1][c], Weight(j, N, K), N - 1)

Gray(q) == <<q, q, q>>

LinearChannelsInterpolated ==
    ValidRequest =>
        /\ \A c \in LinearChannels :
              /\ Len(Interpolated[c]) = last.num_colors
              /\ \A j \in 1..last.num_colors :
                    Interpolated[c][j] =
                        PiecewiseLinear(c, j, last.num_colors, Len(last.colors))
        /\ last.colorsys = "rgb" =>
              \A j \in 1..last.num_colors :
                  last.rgbs_i[j] =
                      <<last.hh_i[j], last.ss_i[j], last.vv_i[j]>>
        /\ (/\ last.colors = <<"black", "white">>
            /\ last.colorsys = "rgb"
            /\ last.num_colors = 5) =>
              last.rgbs_i = <<Gray(Zero), Gray(R(1, 4)), Gray(R(1, 2)),
                              Gray(R(3, 4)), Gray(One)>>

LinearChannelsInterpolatedWitness ==
    /\ Returned
    /\ last.colors = <<"black", "white">>
    /\ last.colorsys = "rgb"
    /\ last.num_colors = 5
    /\ last.rgbs_i[2] = Gray(R(1, 4))
    /\ usercmap[chips_usercmap1][1] = <<Zero, R(1, 4), R(1, 2), R(3, 4), One>>

(***************************************************************************)
(* C5: for every valid request every channel of every ramp entry lies in   *)
(* [0,1]; every interpolated hue is in [0,1) and every interpolated        *)
(* saturation, value or lightness lies between the values of the two       *)
(* enclosing anchors.                                                      *)
(***************************************************************************)
BetweenAnchors(c, j, N, K) ==
    /\ Le(Min2(last.hsvs[Enclosing(j, N, K)][c],
               last.hsvs[Enclosing(j, N, K) + 1][c]), Interpolated[c][j])
    /\ Le(Interpolated[c][j],
          Max2(last.hsvs[Enclosing(j, N, K)][c],
               last.hsvs[Enclosing(j, N, K) + 1][c]))

RampInUnitCube ==
    ValidRequest =>
        /\ \A j \in 1..Len(last.rgbs_i) : ValidTriple(last.rgbs_i[j])
        /\ \A k \in 1..3 : \A j \in 1..Len(usercmap[SlotOf(last.cmap)][k]) :
              InUnit(usercmap[SlotOf(last.cmap)][k][j])
        /\ last.colorsys # "rgb" =>
              \A j \in 1..Len(last.hh_i) :
                  /\ Le(Zero, last.hh_i[j]) /\ Lt(last.hh_i[j], One)
                  /\ \A c \in {2, 3} :
                        BetweenAnchors(c, j, last.num_colors, Len(last.colors))

\* a request whose hue is shifted above 1 and reduced, and whose ramp has a
\* color that is none of the anchors
RampInUnitCubeWitness ==
    /\ ValidRequest
    /\ last.colors = <<"hue05", "pink">>
    /\ last.colorsys = "hsv"
    /\ last.num_colors = 3
    /\ Lt(Half, Sub(AnchorHue(2), AnchorHue(1)))
    /\ last.hh_i[2] # AnchorHue(1) /\ last.hh_i[2] # AnchorHue(2)
    /\ ValidTriple(last.rgbs_i[2])

(***************************************************************************)
(* C6: a request with fewer than two anchors (an empty list or a single    *)
(* color) is rejected with an error; no ramp is produced and no colormap   *)
(* is loaded.  (Stated for calls whose other arguments are valid, so that *)
(* nothing but the number of anchors can be the reason of the rejection.)  *)
(***************************************************************************)
OtherArgumentsValid ==
    /\ \A i \in 1..Len(last.colors) : ValidAnchor(last.colors[i])
    /\ last.colorsys \in ColorSystems
    /\ last.num_colors >= 2
    /\ ValidCmap(last.cmap)
    /\ last.outfile \notin Unwritable

FewAnchorsRejected ==
    (Called /\ Len(last.colors) < 2 /\ OtherArgumentsValid) =>
        /\ Failed
        /\ ~last.loaded
        /\ last.rgbs_i = <<>>

(***************************************************************************)
(* C7: a request with an anchor that is not a valid RGB triple (not three  *)
(* channels, or a channel outside [0,1]) is rejected with an error; the    *)
(* out-of-range value never reaches the ramp.  (Stated for calls with two *)
(* or more colors of colors.par and otherwise valid arguments.)            *)
(***************************************************************************)
InvalidAnchorRejected ==
    (/\ Called
     /\ Len(last.colors) >= 2
     /\ \A i \in 1..Len(last.colors) : KnownColor(last.colors[i])
     /\ \E i \in 1..Len(last.colors) : ~ValidAnchor(last.colors[i])
     /\ last.colorsys \in ColorSystems
     /\ last.num_colors >= 2
     /\ ValidCmap(last.cmap)
     /\ last.outfile \notin Unwritable) =>
        /\ Failed
        /\ ~last.loaded
        /\ \A j \in 1..Len(last.rgbs_i) : ValidTriple(last.rgbs_i[j])

(***************************************************************************)
(* C8: a call with a color system other than rgb, hsv or hls fails with an *)
(* error that is raised before anything is interpolated and before any     *)
(* colormap is loaded.                                                     *)
(***************************************************************************)
UnsupportedColorsysRejected ==
    [][(calls' = calls + 1 /\ last'.colorsys \notin ColorSystems) =>
          /\ last'.err # "none"
          /\ last'.hh_i = <<>> /\ last'.ss_i = <<>> /\ last'.vv_i = <<>>
          /\ last'.rgbs_i = <<>>
          /\ ~last'.loaded
          /\ usercmap' = usercmap
          /\ image' = image
          /\ files' = files]_vars

UnsupportedColorsysRejectedWitness ==
    /\ Called
    /\ last.colors = <<"red", "blue">>
    /\ last.colorsys = "xyz"
    /\ last.num_colors = 3
    /\ last.cmap = "usercmap2"
    /\ last.err = "ValueError"
    /\ last.at = "colorsys"
    /\ usercmap[chips_usercmap2] = NoTable

(***************************************************************************)
(* C9: a call with num_colors < 2 (0 or 1) fails with an error: it does    *)
(* not enter the interpolation and loads no colormap.  (Stated for calls  *)
(* with two or more valid anchors and otherwise valid arguments.)          *)
(***************************************************************************)
SmallNumColorsRejected ==
    (/\ Called
     /\ last.num_colors < 2
     /\ Len(last.colors) >= 2
     /\ \A i \in 1..Len(last.colors) : ValidAnchor(last.colors[i])
     /\ last.colorsys \in ColorSystems
     /\ ValidCmap(last.cmap)
     /\ last.outfile \notin Unwritable) =>
        /\ Failed
        /\ ~last.loaded
        /\ last.rgbs_i = <<>>

(***************************************************************************)
(* C10: whenever lut_colors fails it has had no observable effect: no user *)
(* colormap slot was loaded, no image's colormap was changed and no file   *)
(* was written.  (Stated for calls with two or more valid anchors and     *)
(* num_colors >= 2.)                                                       *)
(***************************************************************************)
FailureHasNoEffect ==
    [][(/\ calls' = calls + 1
        /\ last'.err # "none"
        /\ Len(last'.colors) >= 2
        /\ \A i \in 1..Len(last'.colors) : ValidAnchor(last'.colors[i])
        /\ last'.num_colors >= 2) =>
          /\ usercmap' = usercmap
          /\ image' = image
          /\ files' = files]_vars

(***************************************************************************)
(* C11: building a ramp keeps no hidden state: every call that returns and *)
(* has the anchors, color system and num_colors of an earlier call yields  *)
(* the ramp the earlier call yielded, whatever calls (other requests,     *)
(* failing calls, other slots) were made in between.                       *)
(***************************************************************************)
SameRequest ==
    /\ last.colors = req.colors
    /\ last.num_colors = req.num_colors
    /\ last.colorsys = req.colorsys

ReturnedTableAccepted ==
    (box.op = "colorize" /\ box.given = "returned") =>
        /\ box.err = "none"
        /\ box.num_colors = last.num_colors
        /\ box.hex_codes =
              get_rgb_hexcodes(channels(last.rgbs_i)[1],
                               channels(last.rgbs_i)[2],
                               channels(last.rgbs_i)[3])

(***************************************************************************)
(* C13: hexify maps every v with 0 <= v <= 1 to the two-digit upper-case   *)
(* hexadecimal numeral of min(floor(256 v), 255): 0 gives "00", 0.5 gives  *)
(* "80", 1 gives "FF", the numeral is between "00" and "FF" and does not   *)
(* decrease when v grows; hexify raises ValueError for v < 0 and for       *)
(* v > 1.  color_by_value is the concatenation of hexify of red, green     *)
(* and blue.                                                               *)
(***************************************************************************)
\* k = min(floor(256 v), 255), said with integers: v = q[1]/q[2]
IsByteOf(q, k) ==
    \/ k = 255 /\ q = One
    \/ k * q[2] <= 256 * q[1] /\ 256 * q[1] < (k + 1) * q[2]
ByteOf(q) == CHOOSE k \in 0..255 : IsByteOf(q, k)

UpperHexDigit(i) ==
    CASE i = 0 -> "0" [] i = 1 -> "1" [] i = 2 -> "2" [] i = 3 -> "3"
      [] i = 4 -> "4" [] i = 5 -> "5" [] i = 6 -> "6" [] i = 7 -> "7"
      [] i = 8 -> "8" [] i = 9 -> "9" [] i = 10 -> "A" [] i = 11 -> "B"
      [] i = 12 -> "C" [] i = 13 -> "D" [] i = 14 -> "E" [] i = 15 -> "F"
TwoDigitHex(k) == UpperHexDigit(k \div 16) \o UpperHexDigit(k % 16)

HexifyIsByteInHex ==
    /\ ret.op = "hexify" =>
          /\ InUnit(arg.red) =>
                /\ ret.err = "none"
                /\ \E k \in 0..255 : IsByteOf(arg.red, k)
                /\ ret.val = TwoDigitHex(ByteOf(arg.red))
                /\ arg.red = Zero => ret.val = "00"
                /\ arg.red = Half => ret.val = "80"
                /\ arg.red = One => ret.val = "FF"
          /\ (Lt(arg.red, Zero) \/ Lt(One, arg.red)) =>
                ret.err = "ValueError"
    /\ ret.op = "color_by_value" =>
          IF InUnit(arg.red) /\ InUnit(arg.green) /\ InUnit(arg.blue)
          THEN /\ ret.err = "none"
               /\ ret.val = TwoDigitHex(ByteOf(arg.red))
                               \o TwoDigitHex(ByteOf(arg.green))
                               \o TwoDigitHex(ByteOf(arg.blue))
               /\ Le(arg.green, arg.red) =>
                     ByteOf(arg.green) <= ByteOf(arg.red)
               /\ Le(arg.red, arg.blue) =>
                     ByteOf(arg.red) <= ByteOf(arg.blue)
          ELSE (\E v \in {arg.red, arg.green, arg.blue} :
                    Lt(v, Zero) \/ Lt(One, v)) => ret.err = "ValueError"

HexifyIsByteInHexWitness ==
    /\ ret.op = "color_by_value"
    /\ arg.red = One /\ arg.green = Half /\ arg.blue = R(1, 3)
    /\ ret.val = "FF8055"

(***************************************************************************)
(* C14: with the default linear transform, sampling n >= 2 colors from a   *)
(* table of L >= 2 colors is even: sample i (from 0) is the table entry    *)
(* floor(i * (L-1) / (n-1)); the entries are within 0..L-1 and do not      *)
(* decrease, the first sample is the first color of the table and the last *)
(* sample its last color, and with n = 3 the middle sample is the entry    *)
(* floor((L-1)/2).                                                         *)
(***************************************************************************)
\* the table as sampled: the rows of the file, reversed on request
TableSampled ==
    IF arg.reverse THEN reversed(files["gray.lut"].rows)
    ELSE files["gray.lut"].rows
TableColor(k) ==
    color_by_value(TableSampled[k + 1][1], TableSampled[k + 1][2],
                   TableSampled[k + 1][3])
EvenEntry(i, L, n) == (i * (L - 1)) \div (n - 1)

LinearSampling ==
    /\ ret.op = "_sample_from_lut"
    /\ arg.xform = "_linear"
    /\ arg.num_sample >= 2
    /\ Len(TableSampled) >= 2

SamplingIsEven ==
    LinearSampling =>
        /\ ret.err = "none"
        /\ Len(ret.val.val) = arg.num_sample
        /\ \A i \in 0..(arg.num_sample - 1) :
              /\ ret.val.idx[i + 1] =
                    EvenEntry(i, Len(TableSampled), arg.num_sample)
              /\ ret.val.val[i + 1] = TableColor(ret.val.idx[i + 1])
              /\ ret.val.idx[i + 1] \in 0..(Len(TableSampled) - 1)
              /\ i > 0 => ret.val.idx[i] <= ret.val.idx[i + 1]
        /\ ret.val.val[1] = TableColor(0)
        /\ ret.val.val[arg.num_sample] = TableColor(Len(TableSampled) - 1)
        /\ arg.num_sample = 3 =>
              ret.val.idx[2] = (Len(TableSampled) - 1) \div 2

(***************************************************************************)
(* C15: a color_* call with skip = s and rskip = r on a plot of M objects  *)
(* of its type returns, draws M+s+r even samples from the table (sample i  *)
(* is the table entry floor(i (L-1) / (M+s+r-1))) and gives the k-th       *)
(* object, k = 0..M-1 in the order of creation, sample s+k; the first s    *)
(* and the last r samples are given to no object, so that with skip >= 1   *)
(* no object has the first color of the table and with rskip >= 1 none has *)
(* its last color.                                                         *)
(***************************************************************************)
SkipTable ==
    IF arg.reverse THEN reversed(files[arg.lutfile \o ".lut"].rows)
    ELSE files[arg.lutfile \o ".lut"].rows
SkipColor(k) ==
    color_by_value(SkipTable[k + 1][1], SkipTable[k + 1][2],
                   SkipTable[k + 1][3])
Drawn == Len(ret.val.curves) + arg.skip + arg.rskip
EvenSample(i) ==
    IF Drawn = 1 THEN 0 ELSE EvenEntry(i, Len(SkipTable), Drawn)

SkipCall == arg.op = "color_object" /\ ret.op = arg.fn

SkippedSamplesEven ==
    SkipCall =>
        /\ ret.err = "none"
        /\ Len(ret.val.curves) = Len(chips.objs)
        /\ Len(ret.val.colors) = Drawn
        /\ \A i \in 0..(Drawn - 1) :
              ret.val.colors[i + 1] = SkipColor(EvenSample(i))
        /\ \A k \in 0..(Len(chips.objs) - 1) :
              /\ chips.objs[k + 1].color = SkipColor(EvenSample(arg.skip + k))
              /\ chips.trace[k + 2] =
                    <<ColorFunctions[arg.fn].setter, chips.objs[k + 1].id,
                      ret.val.colors[arg.skip + k + 1]>>
              /\ arg.skip >= 1 => chips.objs[k + 1].color # SkipColor(0)
              /\ arg.rskip >= 1 =>
                    chips.objs[k + 1].color # SkipColor(Len(SkipTable) - 1)
        /\ Len(chips.trace) = Len(chips.objs) + 2

(***************************************************************************)
(* C16: when a color_* call returns, exactly the objects of the requested  *)
(* type that belong to the current window, frame and plot have had their   *)
(* color set, each exactly once and in the order in which info() lists     *)
(* them; every other object is as it was.  When no object of the requested *)
(* type belongs to the current plot, the call raises RuntimeError and has  *)
(* changed nothing.                                                        *)
(***************************************************************************)
ColorCalled == ret.op \in DOMAIN ColorFunctions

IsCurrent(o) ==
    /\ chips.current.win = <<o.win>>
    /\ chips.current.frm = <<o.frm>>
    /\ chips.current.plt = <<o.plt>>

Requested ==
    {k \in 1..Len(ret.val.before) :
        /\ ret.val.before[k].type = ColorFunctions[ret.op].plot_object
        /\ IsCurrent(ret.val.before[k])}

\* the place of object k among the requested ones
Rank(k) == Cardinality({j \in Requested : j <= k})

SetterCalls == SelectSeq(chips.trace, LAMBDA t : Len(t) = 3)

OnlyOnePlotCurrent == Len(chips.current.plt) <= 1

ExactlyRequestedColored ==
    ColorCalled =>
        /\ ret.err = "none" =>
              /\ Requested # {}
              /\ Len(SetterCalls) = Cardinality(Requested)
              /\ \A k \in Requested :
                    /\ SetterCalls[Rank(k)][1] = ColorFunctions[ret.op].setter
                    /\ SetterCalls[Rank(k)][2] = ret.val.before[k].id
                    /\ SetterCalls[Rank(k)][3] = chips.objs[k].color
              /\ \A k \in 1..Len(chips.objs) :
                    k \notin Requested => chips.objs[k] = ret.val.before[k]
        /\ (Requested = {} /\ OnlyOnePlotCurrent) =>
              /\ ret.err = "RuntimeError"
              /\ chips.objs = ret.val.before
              /\ chips.trace = <<>>

(***************************************************************************)
(* C17: the color changes of one color_* call are a single undo unit: the  *)
(* call opens an undo block once, before its first setter call, and closes *)
(* it once, after the last; so the undo() that follows the call gives      *)
(* every object the color it had before the call, and the redo() that      *)
(* follows this undo() gives every object the color the call gave it.      *)
(***************************************************************************)
OneBlock ==
    /\ Len(chips.trace) >= 3
    /\ chips.trace[1] = <<"open_undo_block">>
    /\ chips.trace[Len(chips.trace)] = <<"close_undo_block">>
    /\ \A j \in 2..(Len(chips.trace) - 1) : Len(chips.trace[j]) = 3
    /\ chips.depth = 0
    /\ chips.done # <<>>
    /\ Len(chips.done[Len(chips.done)]) = Len(chips.trace) - 2

OneUndoUnit ==
    /\ (ColorCalled /\ ret.err = "none") => OneBlock
    /\ (ret.op \in {"undo", "redo"} /\ ret.val.of_call) =>
          chips.objs = ret.val.found

\* every object a call colored has its color back after undo() and again
\* the call's color after redo()
Recolored(objs) ==
    {k \in 1..Len(objs) : objs[k].color # DefaultObjectColor}

OneUndoUnitWitness ==
    /\ ret.op = "redo" /\ ret.val.of_call
    /\ Cardinality(Recolored(chips.objs)) = 3
    /\ Recolored(ret.val.before) = {}

(***************************************************************************)
(* C18: a lookup table is located by trying the candidates in a fixed      *)
(* order: the directories as given, $ASCDS_INSTALL/data/,                 *)
(* $ASCDS_CONTRIB/data/, $HOME/.ds9/ and then each $HOME/.ds9/LUT/*/, and  *)
(* in each directory the bare name before name+".lut".  The first          *)
(* candidate that can be read is the one returned; IOError is raised if    *)
(* and only if no candidate can be read; and the three copies of the       *)
(* search (_utils, color_curves, LUTPlot) find the same candidate.         *)
(***************************************************************************)
SearchDirs ==
    <<"", "/ciao/data/", "/ciao/contrib/data/", "/home/u/.ds9/">> \o globbed

\* candidate number n, n = 1..2*Len(SearchDirs)
Candidate(n) ==
    IF n % 2 = 1 THEN SearchDirs[(n + 1) \div 2] \o arg.filename
    ELSE SearchDirs[n \div 2] \o arg.filename \o ".lut"

CanBeRead(f) == f \in DOMAIN files /\ files[f].exists

ReadableCandidates ==
    {n \in 1..(2 * Len(SearchDirs)) : CanBeRead(Candidate(n))}

FirstReadable ==
    IF ReadableCandidates = {} THEN "<IOError>"
    ELSE Candidate(CHOOSE n \in ReadableCandidates :
                       \A m \in ReadableCandidates : n <= m)

MethodCalled(op) == ret'.op = op /\ ret'.val.n = ret.val.n + 1

HasSeries(self) == self.curves.type = "list" /\ self.curves.val # <<>>

ZgridErrors ==
    {"zgrid must have same number of elements",
     "zgrid must have 2 elements in each slot",
     "All elements of zgrid must be numbers"}

SeriesBookkeeping(self) ==
    <<self.curves, self.min_z, self.max_z, self.lut_win, self.lut_frame,
      self.lut_plot, self.old_win, self.old_frame, self.old_plot, self.rx,
      self.ry>>

SecondSeriesRefused ==
    /\ ret'.err = "RuntimeError"
    /\ ret'.val.at = "The same object cannot be used to plot multiple series"
    /\ chips'.objs = chips.objs
    /\ chips'.depth = chips.depth
    /\ \A j \in 1..Len(chips'.trace) :
          chips'.trace[j][1] \notin {"open_undo_block", "add_curve"}
    /\ SeriesBookkeeping(lut') = SeriesBookkeeping(lut)

PlotsOneSeries ==
    [][/\ MethodCalled("plot") /\ ret'.err = "none" => HasSeries(lut')
       /\ HasSeries(lut) => HasSeries(lut')
       /\ MethodCalled("plot") /\ HasSeries(lut) => SecondSeriesRefused
       /\ MethodCalled("plot") /\ ~HasSeries(lut) =>
             ret'.err # "RuntimeError"
       /\ MethodCalled("plot") /\ ret'.err = "ValueError"
             /\ ret'.val.at \in ZgridErrors =>
                 /\ ~HasSeries(lut')
                 /\ SeriesBookkeeping(lut') = SeriesBookkeeping(lut)
                 /\ chips'.objs = chips.objs
                 /\ chips'.depth = chips.depth]_vars

\* a second plot() has been refused on an object whose first plot() drew
\* curves
PlotsOneSeriesWitness ==
    /\ ret.op = "plot" /\ ret.err = "RuntimeError"
    /\ ret.val.prev.op = "plot" /\ ret.val.prev.err = "none"
    /\ \E j \in 1..Len(lut.curves.val) : lut.curves.val[j] # None
    /\ arg.zz # <<>>

(***************************************************************************)
(* C20: replace_cmap with a lookup table that has another number of colors *)
(* than the table the series was plotted with raises an exception and      *)
(* changes neither the user colormap slot nor the color of a plotted       *)
(* curve; replace_cmap on an object that has not been plotted raises       *)
(* RuntimeError.                                                           *)
(***************************************************************************)
\* the object replace_cmap was called on, and the table it was given
Replaced == ret.val.self
NewTable == LUTPlot_try_hard_to_locate(arg.filename)

OtherNumberOfColors ==
    /\ NewTable # NotFound
    /\ Len(files[NewTable].rows) # Replaced.num_colors

ReplaceCmapRefused ==
    ret.op = "replace_cmap" =>
        /\ HasSeries(Replaced) /\ OtherNumberOfColors =>
              /\ ret.err # "none"
              /\ usercmap = ret.val.usercmap
              /\ chips.objs = ret.val.objs
        /\ ~HasSeries(Replaced) => ret.err = "RuntimeError"

(***************************************************************************)
(* C21: with the default z grid and a table of 2 or more colors, plot puts *)
(* every point into exactly one of the num_colors bins, the half-open      *)
(* intervals of equal width that start at min(zz), the last one being      *)
(* open-ended: the plot call returns, the list of curves has num_colors    *)
(* entries, entry i is None when no point lies in bin i and otherwise the  *)
(* curve of color i that holds the points of bin i and no other, and every *)
(* point, the one with the largest z in the last bin, is drawn in exactly  *)
(* one curve.                                                              *)
(***************************************************************************)
SeriesPlotted == arg.op = "series" /\ ret.op = "plot"

SeriesZ == {arg.zz[j] : j \in 1..Len(arg.zz)}

\* the bin of z, counted from 0: bin i is [min + i*w, min + (i+1)*w) with
\* w = (max - min)/(num_colors - 1), the last bin has no upper edge
BinOf(z) ==
    IF max(SeriesZ) = min(SeriesZ) THEN lut.num_colors - 1
    ELSE ((z - min(SeriesZ)) * (lut.num_colors - 1))
             \div (max(SeriesZ) - min(SeriesZ))

\* the points of bin i; a point is known by its x
PointsOf(i) == {j \in 1..Len(arg.zz) : BinOf(arg.zz[j]) = i}

\* the curves of the plot that show point j
CurvesWith(j) ==
    {k \in 1..Len(chips.objs) :
        \E n \in 1..Len(chips.objs[k].x) : chips.objs[k].x[n] = j}

\* the curve of the plot that entry i of the list of curves names
CurveOf(i) ==
    {k \in 1..Len(chips.objs) : chips.objs[k].id = lut.curves.val[i + 1]}

EveryPointInOneBin ==
    SeriesPlotted =>
        /\ ret.err = "none"
        /\ lut.curves.type = "list"
        /\ Len(lut.curves.val) = lut.num_colors
        /\ \A j \in 1..Len(arg.zz) : Cardinality(CurvesWith(j)) = 1
        /\ \A i \in 0..(lut.num_colors - 1) :
              IF PointsOf(i) = {} THEN lut.curves.val[i + 1] = None
              ELSE /\ lut.curves.val[i + 1] # None
                   /\ \E k \in CurveOf(i) :
                         /\ CurveOf(i) = {k}
                         /\ chips.objs[k].color = lut.hex_codes[i + 1]
                         /\ {chips.objs[k].x[n] :
                                n \in 1..Len(chips.objs[k].x)} = PointsOf(i)
        /\ \A j \in 1..Len(arg.zz) :
              arg.zz[j] = max(SeriesZ) => j \in PointsOf(lut.num_colors - 1)

====
